---------------------------- MODULE Spec2Model ----------------------------
(***************************************************************************)
(* IntentForge: programmable-money policy enforcement.                     *)
(*                                                                         *)
(* The module models the Rule Evaluator and the Validation Orchestrator    *)
(* (intentforge/backend/app/services/validation_service.py), the           *)
(* Explanation Generator, the Policy Store with its Conflict Analyzer      *)
(* (backend/app/services/policy_service.py), and the Wallet Store and      *)
(* Clawback Engine (wallet_service.py, clawback_service.py).               *)
(*                                                                         *)
(* Conventions.  An Optional value is a set with at most one element ({}   *)
(* is None).  An optional string is NoneStr when it is None.  Amounts are  *)
(* integers (the code uses floats; no claim rests on rounding).  Time is   *)
(* the reading of datetime.utcnow() in abstract units.                     *)
(***************************************************************************)
EXTENDS Integers, Sequences, FiniteSets, TLC

VARIABLES
    tx,         \* the Transaction handed to the validation service
    policies,   \* the List[Policy] handed to the validation service
    now,        \* the last reading of the clock (datetime.utcnow)
    last,       \* the record of the latest call on a service
    prev,       \* the record of the validation call before it
    transaction_history,  \* ValidationService.transaction_history
    store,      \* PolicyService.policies, in insertion order
    wallets,    \* WalletService.wallets
    transactions,   \* ClawbackService.transactions
    clawbacks,  \* ClawbackService.clawbacks, in insertion order
    calls       \* the execute_clawback coroutines of the event loop

valVars == <<tx, policies, prev, transaction_history>>

storeVars == <<store, wallets, transactions, clawbacks>>

vars == <<tx, policies, now, last, prev, transaction_history,
          store, wallets, transactions, clawbacks, calls>>

-----------------------------------------------------------------------------
(* Bounds of the model *)

\* longest policy list handed to validate_transaction
MaxPolicies == 2

\* largest clock reading
MaxTime == 2

-----------------------------------------------------------------------------
(* Values *)

NoneStr == "<None>"

NoCall == [kind |-> "none"]

\* the value of an optional that is not None
Some(s) == CHOOSE v \in s : TRUE

\* Python truthiness of an Optional[str]: None and "" are falsy
Falsy(s) == s = NoneStr \/ s = ""

TransactionStatus == {"APPROVED", "BLOCKED", "PENDING", "VIOLATION", "CLAWBACK_REQUIRED"}

\* the rule bundle of a policy
PolicyRules(cats, maxa, cap, geo, wl, bl, exp) ==
    [allowed_categories |-> cats, max_amount |-> maxa, per_transaction_cap |-> cap,
     geo_fence |-> geo, merchant_whitelist |-> wl, merchant_blacklist |-> bl,
     expiry |-> exp]

\* a Policy; its name is a text, a sequence of symbols
Policy(id, name, type, rules, prio, active, exp, attached) ==
    [policy_id |-> id, name |-> name, policy_type |-> type, rules |-> rules,
     priority |-> prio, is_active |-> active, expires_at |-> exp,
     attached_wallets |-> attached]

Transaction(id, wallet_id, amount, category, merchant, location) ==
    [transaction_id |-> id, wallet_id |-> wallet_id, amount |-> amount, category |-> category,
     merchant |-> merchant, location |-> location]

\* faulty variant: a policy counts as expired from its expiry instant on
is_expired_from_expiry_on(policy, t) ==
    IF policy.expires_at = {} THEN FALSE ELSE t >= Some(policy.expires_at)

\* Policy.is_expired at clock reading t
is_expired(policy, t) ==
    IF policy.expires_at = {} THEN FALSE ELSE t > Some(policy.expires_at)

-----------------------------------------------------------------------------
(* Rule Evaluator *)

\* A violation message: the f-string's policy name, the rule whose text it
\* carries, and the offending value (an amount or a string).
Violation(policy, rule, amount, item) ==
    [policy_name |-> policy.name, rule |-> rule, amount |-> amount, item |-> item]

\* faulty variant: the amount limit is checked before the category
evaluate_policy_amount_first(transaction, policy, t) ==
    LET rules == policy.rules IN
    IF is_expired(policy, t) THEN {}
    ELSE IF rules.max_amount # {} /\ transaction.amount > Some(rules.max_amount)
    THEN {Violation(policy, "max_amount", {transaction.amount}, NoneStr)}
    ELSE IF rules.allowed_categories # {}
            /\ transaction.category \notin rules.allowed_categories
    THEN {Violation(policy, "category", {}, transaction.category)}
    ELSE {}

\* faulty variant: a transaction without location skips the geo-fence
evaluate_policy_skip_missing_location(transaction, policy, t) ==
    LET rules == policy.rules IN
    IF is_expired(policy, t) THEN {}
    ELSE IF rules.allowed_categories # {}
            /\ transaction.category \notin rules.allowed_categories
    THEN {Violation(policy, "category", {}, transaction.category)}
    ELSE IF rules.max_amount # {} /\ transaction.amount > Some(rules.max_amount)
    THEN {Violation(policy, "max_amount", {transaction.amount}, NoneStr)}
    ELSE IF rules.per_transaction_cap # {}
            /\ transaction.amount > Some(rules.per_transaction_cap)
    THEN {Violation(policy, "per_transaction_cap", {transaction.amount}, NoneStr)}
    ELSE IF rules.geo_fence # {} /\ ~Falsy(transaction.location)
            /\ transaction.location \notin rules.geo_fence
    THEN {Violation(policy, "geo_fence", {}, transaction.location)}
    ELSE {}

\* ValidationService._evaluate_policy: Optional[str], the first failing check
evaluate_policy(transaction, policy, t) ==
    LET rules == policy.rules IN
    IF is_expired(policy, t) THEN {}
    ELSE IF rules.allowed_categories # {}
            /\ transaction.category \notin rules.allowed_categories
    THEN {Violation(policy, "category", {}, transaction.category)}
    ELSE IF rules.max_amount # {} /\ transaction.amount > Some(rules.max_amount)
    THEN {Violation(policy, "max_amount", {transaction.amount}, NoneStr)}
    ELSE IF rules.per_transaction_cap # {}
            /\ transaction.amount > Some(rules.per_transaction_cap)
    THEN {Violation(policy, "per_transaction_cap", {transaction.amount}, NoneStr)}
    ELSE IF rules.geo_fence # {} /\ Falsy(transaction.location)
    THEN {Violation(policy, "location_required", {}, NoneStr)}
    ELSE IF rules.geo_fence # {} /\ transaction.location \notin rules.geo_fence
    THEN {Violation(policy, "geo_fence", {}, transaction.location)}
    ELSE IF rules.merchant_whitelist # {} /\ Falsy(transaction.merchant)
    THEN {Violation(policy, "merchant_required", {}, NoneStr)}
    ELSE IF rules.merchant_whitelist # {}
            /\ transaction.merchant \notin rules.merchant_whitelist
    THEN {Violation(policy, "merchant_whitelist", {}, transaction.merchant)}
    ELSE IF rules.merchant_blacklist # {} /\ ~Falsy(transaction.merchant)
            /\ transaction.merchant \in rules.merchant_blacklist
    THEN {Violation(policy, "merchant_blacklist", {}, transaction.merchant)}
    ELSE {}

-----------------------------------------------------------------------------
(* Explanation Generator *)

\* ExplanationGeneratorService._describe_policy_compliance: the three typed
\* branches read the rule bundle with rules.get(...), which a PolicyRules
\* object does not have.
describe_policy_compliance_raises(policy) ==
    policy.policy_type \in {"category_restriction", "spending_limit", "geo_restriction"}

\* ExplanationGeneratorService._generate_approved_explanation
generate_approved_explanation(evaluated_policies) ==
    IF \E i \in 1..Len(evaluated_policies) :
            i <= 3 /\ describe_policy_compliance_raises(evaluated_policies[i])
    THEN [raised |-> "AttributeError", template |-> NoneStr, items |-> 0,
          policies_count |-> 0]
    ELSE [raised |-> NoneStr, template |-> "approved", items |-> 0,
          policies_count |-> Len(evaluated_policies)]

\* ExplanationGeneratorService._generate_blocked_explanation: each violation
\* is read as an object (violation.rule_type, .policy_name, .message), and
\* the violations of a ValidationResult are strings.
generate_blocked_explanation(violations, evaluated_policies) ==
    IF Len(violations) > 0
    THEN [raised |-> "AttributeError", template |-> NoneStr, items |-> 0,
          policies_count |-> 0]
    ELSE [raised |-> NoneStr, template |-> "blocked", items |-> Len(violations),
          policies_count |-> Len(evaluated_policies)]

\* ExplanationGeneratorService.generate_explanation
generate_explanation(decision, violations, evaluated_policies) ==
    IF decision = "approved"
    THEN generate_approved_explanation(evaluated_policies)
    ELSE generate_blocked_explanation(violations, evaluated_policies)

-----------------------------------------------------------------------------
(* Validation Orchestrator *)

RECURSIVE insert_by_priority(_, _)
\* p goes before the first element of strictly greater priority
insert_by_priority(s, p) ==
    IF s = <<>> THEN <<p>>
    ELSE IF p.priority < Head(s).priority THEN <<p>> \o s
    ELSE <<Head(s)>> \o insert_by_priority(Tail(s), p)

RECURSIVE reversed(_)
reversed(s) == IF s = <<>> THEN <<>> ELSE Append(reversed(Tail(s)), Head(s))

RECURSIVE sorted_stable(_)
sorted_stable(ps) ==
    IF ps = <<>> THEN <<>>
    ELSE insert_by_priority(sorted_stable(SubSeq(ps, 1, Len(ps) - 1)), ps[Len(ps)])

\* faulty variant: a sort that does not keep the input order of equal priorities
sorted_unstable(ps) == sorted_stable(reversed(ps))

\* sorted(policies, key=lambda p: p.priority): Python's sort is stable
sorted(ps) == sorted_stable(ps)

\* faulty variant: the expiry test of the loop is dropped
effective_at_ignoring_expiry(policy, t) == policy.is_active

\* the loop's guard, negated: policy.is_active and not policy.is_expired()
effective_at(policy, t) == policy.is_active /\ ~is_expired(policy, t)

RECURSIVE validate_loop(_, _, _, _, _)
\* the loop over sorted_policies; ticks[2i-1] is the clock read by the guard of
\* the i-th policy and ticks[2i] the clock read by _evaluate_policy
validate_loop(transaction, sp, ticks, i, acc) ==
    IF i > Len(sp) THEN acc
    ELSE IF ~effective_at(sp[i], ticks[2 * i - 1])
    THEN validate_loop(transaction, sp, ticks, i + 1, acc)
    ELSE LET violation == evaluate_policy(transaction, sp[i], ticks[2 * i])
             evaluated == Append(acc.policies_evaluated, sp[i].policy_id)
         IN  validate_loop(transaction, sp, ticks, i + 1,
                IF violation # {}
                THEN [violations |-> Append(acc.violations, Some(violation)),
                      policies_evaluated |-> evaluated, status |-> "BLOCKED"]
                ELSE [acc EXCEPT !.policies_evaluated = evaluated])

\* ValidationService.validate_transaction up to its return or raise
validate_transaction(transaction, ps, ticks) ==
    LET sorted_policies == sorted(ps)
        loop == validate_loop(transaction, sorted_policies, ticks, 1,
                    [violations |-> <<>>, policies_evaluated |-> <<>>,
                     status |-> "APPROVED"])
        ai_explanation == generate_explanation(loop.status, loop.violations,
                                               sorted_policies)
        confidence == IF loop.violations = <<>> THEN 98 ELSE 95
    IN  [kind |-> "validate",
         raised |-> ai_explanation.raised,
         status |-> loop.status,
         violations |-> loop.violations,
         policies_evaluated |-> loop.policies_evaluated,
         result |-> IF ai_explanation.raised # NoneStr THEN {}
                    ELSE {[transaction_id |-> transaction.transaction_id,
                           status |-> loop.status, decision |-> loop.status,
                           violations |-> loop.violations,
                           policies_evaluated |-> loop.policies_evaluated,
                           explanation |-> ai_explanation,
                           confidence |-> confidence,
                           requires_clawback |-> FALSE]}]

-----------------------------------------------------------------------------
(* Inputs of the Rule Evaluator specification *)

Categories == {"education", "entertainment"}
Locations == {NoneStr, "", "IN-DL", "IN-KA"}
Merchants == {NoneStr, "m1", "m2"}

EvalTransactions ==
    {Transaction(1, 1, a, c, m, l) : a \in {1, 3}, c \in Categories,
                               m \in Merchants, l \in Locations}

Expiries == {{}} \cup {{t} : t \in 1..(MaxTime - 1)}

EvalRules ==
    {PolicyRules(cats, maxa, cap, geo, wl, bl, e) :
        cats \in {{}, {"education"}}, maxa \in {{}, {2}}, cap \in {{}, {2}},
        geo \in {{}, {"IN-DL"}}, wl \in {{}, {"m1"}}, bl \in {{}, {"m1"}},
        e \in Expiries}

EvalPolicies ==
    {Policy(1, <<"P1">>, "composite", r, 0, TRUE, r.expiry, <<>>) : r \in EvalRules}

InitEval ==
    /\ tx \in EvalTransactions
    /\ policies \in {<<p>> : p \in EvalPolicies}
    /\ now = 0
    /\ last = NoCall
    /\ prev = NoCall
    /\ transaction_history = <<>>
    /\ store = <<>>
    /\ wallets = <<>>
    /\ transactions = <<>>
    /\ clawbacks = <<>>
    /\ calls = <<>>

\* one call of the Rule Evaluator, reading the clock at t
Evaluate ==
    \E t \in now..MaxTime :
        /\ now' = t
        /\ last' = [kind |-> "evaluate", t |-> t,
                    violation |-> evaluate_policy(tx, policies[1], t)]
        /\ UNCHANGED <<calls, valVars, storeVars>>

NextEval == Evaluate

SpecEval == InitEval /\ [][NextEval]_vars

-----------------------------------------------------------------------------
(* Inputs of the Orchestrator specification *)

PolicyNames == <<(<<"P1">>), (<<"P2">>), (<<"P3">>), (<<"P4">>)>>

ValRules ==
    {PolicyRules({"education"}, {}, {}, {}, {}, {}, e) : e \in Expiries}
    \cup {PolicyRules({}, {2}, {}, {}, {}, {}, e) : e \in Expiries}

TypeOf(rules) ==
    IF rules.allowed_categories # {} THEN "category_restriction"
    ELSE IF rules.geo_fence # {} THEN "geo_fence"
    ELSE IF rules.merchant_whitelist # {} \/ rules.merchant_blacklist # {}
         THEN "merchant_control"
    ELSE IF rules.max_amount # {} \/ rules.per_transaction_cap # {}
         THEN "spending_limit"
    ELSE "time_constraint"

\* the policies that may stand at position i of the input list
ValPoliciesAt(i) ==
    {Policy(i, PolicyNames[i], TypeOf(r), r, pr, a, r.expiry, <<>>) :
        r \in ValRules, pr \in 0..(MaxPolicies - 1), a \in BOOLEAN}

RECURSIVE ValPolicyListsOf(_)
\* the input lists of n policies
ValPolicyListsOf(n) ==
    IF n = 0 THEN {<<>>}
    ELSE {Append(s, p) : s \in ValPolicyListsOf(n - 1), p \in ValPoliciesAt(n)}

ValTransactions ==
    {Transaction(1, 1, a, c, NoneStr, NoneStr) : a \in {1, 3}, c \in Categories}

RECURSIVE Nondecreasing(_, _)
\* the nondecreasing sequences of len readings, none before from
Nondecreasing(len, from) ==
    IF len = 0 THEN {<<>>}
    ELSE UNION {{<<t>> \o s : s \in Nondecreasing(len - 1, t)} : t \in from..MaxTime}

\* the clock readings of one call on a list of n policies: two per policy
ClockReadings(n, from) == Nondecreasing(2 * n, from)

InitValidate ==
    /\ tx \in ValTransactions
    /\ \E n \in 0..MaxPolicies : policies \in ValPolicyListsOf(n)
    /\ now = 0
    /\ last = NoCall
    /\ prev = NoCall
    /\ transaction_history = <<>>
    /\ store = <<>>
    /\ wallets = <<>>
    /\ transactions = <<>>
    /\ clawbacks = <<>>
    /\ calls = <<>>

\* what a later call is compared with
Summary(call) ==
    [kind |-> call.kind, raised |-> call.raised, status |-> call.status,
     violations |-> call.violations, policies_evaluated |-> call.policies_evaluated,
     t_first |-> call.t_first, t_last |-> call.t_last]

\* one call validation_service.validate_transaction(tx, policies)
Validate ==
    \E ticks \in ClockReadings(Len(policies), now) :
        LET n == Len(policies)
            out == validate_transaction(tx, policies, ticks)
            sp == sorted(policies)
            pos(k) == CHOOSE i \in 1..n : sp[i].policy_id = k
        IN  /\ now' = IF n = 0 THEN now ELSE ticks[2 * n]
            /\ last' = [kind |-> out.kind, raised |-> out.raised,
                        status |-> out.status, violations |-> out.violations,
                        policies_evaluated |-> out.policies_evaluated,
                        result |-> out.result,
                        t_guard |-> [k \in 1..n |-> ticks[2 * pos(k) - 1]],
                        t_rules |-> [k \in 1..n |-> ticks[2 * pos(k)]],
                        t_first |-> IF n = 0 THEN now ELSE ticks[1],
                        t_last |-> IF n = 0 THEN now ELSE ticks[2 * n]]
            /\ prev' = IF last.kind = "validate" THEN Summary(last) ELSE prev
            /\ transaction_history' =
                  IF out.result = {} THEN transaction_history
                  ELSE (tx.transaction_id :> [transaction |-> tx,
                                              result |-> Some(out.result)])
                       @@ transaction_history
            /\ UNCHANGED <<calls, tx, policies, storeVars>>

NextValidate == Validate

SpecValidate == InitValidate /\ [][NextValidate]_vars

-----------------------------------------------------------------------------
(* The Rule Evaluator's checks, stated one by one (spec 4.1) *)

CheckOrder == <<"category", "max_amount", "per_transaction_cap", "geo_fence",
                "merchant_whitelist", "merchant_blacklist">>

\* whether transaction t fails the named check of policy p
FailsCheck(t, p, check) ==
    LET r == p.rules IN
    CASE check = "category" ->
            r.allowed_categories # {} /\ t.category \notin r.allowed_categories
      [] check = "max_amount" ->
            r.max_amount # {} /\ t.amount > Some(r.max_amount)
      [] check = "per_transaction_cap" ->
            r.per_transaction_cap # {} /\ t.amount > Some(r.per_transaction_cap)
      [] check = "geo_fence" ->
            r.geo_fence # {} /\ (Falsy(t.location) \/ t.location \notin r.geo_fence)
      [] check = "merchant_whitelist" ->
            r.merchant_whitelist # {}
            /\ (Falsy(t.merchant) \/ t.merchant \notin r.merchant_whitelist)
      [] check = "merchant_blacklist" ->
            ~Falsy(t.merchant) /\ t.merchant \in r.merchant_blacklist

\* the check a violation message belongs to
CheckOfRule(rule) ==
    CASE rule = "location_required" -> "geo_fence"
      [] rule = "merchant_required" -> "merchant_whitelist"
      [] OTHER -> rule

FailingChecks(t, p) == {i \in 1..Len(CheckOrder) : FailsCheck(t, p, CheckOrder[i])}

FirstFailing(t, p) ==
    CheckOrder[CHOOSE i \in FailingChecks(t, p) : \A j \in FailingChecks(t, p) : i <= j]

EvaluatedHere == last.kind = "evaluate"

\* C5: for one policy the Rule Evaluator reports at most one violation; a
\* reported violation is that of the first failing check in the order
\* category, max_amount, per_transaction_cap, geo-fence, merchant whitelist,
\* merchant blacklist, and an effective policy with a failing check reports one.
C5_FirstFailingCheckReported ==
    EvaluatedHere =>
        LET p == policies[1]
            v == last.violation
        IN  /\ Cardinality(v) <= 1
            /\ v # {} => /\ FailingChecks(tx, p) # {}
                         /\ CheckOfRule(Some(v).rule) = FirstFailing(tx, p)
                         /\ Some(v).policy_name = p.name
            /\ (~is_expired(p, last.t) /\ FailingChecks(tx, p) # {}) => v # {}

\* C5 witness: category and amount both fail, only the category is reported
C5_Witness ==
    /\ EvaluatedHere
    /\ FailsCheck(tx, policies[1], "category")
    /\ FailsCheck(tx, policies[1], "max_amount")
    /\ last.violation # {}
    /\ Some(last.violation).rule = "category"

GeoCase ==
    /\ EvaluatedHere
    /\ ~is_expired(policies[1], last.t)
    /\ policies[1].rules.geo_fence # {}
    /\ \A c \in {"category", "max_amount", "per_transaction_cap"} :
            ~FailsCheck(tx, policies[1], c)

LocationBad ==
    Falsy(tx.location) \/ tx.location \notin policies[1].rules.geo_fence

\* C6 as stated: with a geo-fence set and the earlier checks passing, the
\* policy blocks the transaction if and only if the location is missing or
\* outside the fence.
C6_Original ==
    GeoCase => (last.violation # {} <=> LocationBad)

\* C6 amended: with a geo-fence set, the earlier checks passing and no
\* merchant rule of the policy failing, the policy blocks the transaction if
\* and only if the location is missing or outside the fence; whenever the
\* earlier checks pass and the location is missing the violation reported is
\* the 'location required' one.
C6_GeoFenceBlocksIffLocationBad ==
    GeoCase =>
        /\ (\A c \in {"merchant_whitelist", "merchant_blacklist"} :
                ~FailsCheck(tx, policies[1], c))
            => (last.violation # {} <=> LocationBad)
        /\ LocationBad =>
                /\ last.violation # {}
                /\ Some(last.violation).rule =
                      (IF Falsy(tx.location) THEN "location_required" ELSE "geo_fence")

\* C6 witness: the location is None and 'location required' is reported
C6_Witness ==
    /\ GeoCase
    /\ tx.location = NoneStr
    /\ last.violation # {}
    /\ Some(last.violation).rule = "location_required"

-----------------------------------------------------------------------------
(* The Orchestrator's contract *)

ValidatedHere == last.kind = "validate"

\* spec 3: active, and no expiry or an expiry that is not in the past at t
Effective(p, t) == p.is_active /\ (p.expires_at = {} \/ Some(p.expires_at) >= t)

\* the input positions whose policy is effective when the loop reaches it
EffectiveIds == {k \in 1..Len(policies) : Effective(policies[k], last.t_guard[k])}

\* k is evaluated before m: lower priority number first, input order on ties
Before(k, m) ==
    \/ policies[k].priority < policies[m].priority
    \/ policies[k].priority = policies[m].priority /\ k < m

\* the effective policies the transaction fails
FailedIds == {k \in EffectiveIds : FailingChecks(tx, policies[k]) # {}}

\* s lists the members of ids once each, in evaluation order
ListsInOrder(s, ids, key(_)) ==
    /\ {key(s[i]) : i \in 1..Len(s)} = ids
    /\ Len(s) = Cardinality(ids)
    /\ \A i, j \in 1..Len(s) : i < j => Before(key(s[i]), key(s[j]))

IdOfName(name) == CHOOSE k \in 1..Len(PolicyNames) : PolicyNames[k] = name

IdOfViolation(v) == IdOfName(v.policy_name)

IdOfId(k) == k

\* C1: validate returns BLOCKED if and only if at least one effective policy
\* has a failing rule check and APPROVED otherwise, and the violations of the
\* returned result hold one entry per effective policy the transaction fails,
\* in evaluation order.
C1_BlockedIffAnEffectivePolicyFails ==
    ValidatedHere =>
        /\ last.result # {}
        /\ LET r == Some(last.result) IN
            /\ r.status = (IF FailedIds # {} THEN "BLOCKED" ELSE "APPROVED")
            /\ ListsInOrder(r.violations, FailedIds, IdOfViolation)

\* C2: validate never raises for business-rule violations: every call, also
\* one whose transaction violates a policy, returns a ValidationResult.
C2_NeverRaisesForViolations ==
    ValidatedHere => (last.raised = NoneStr /\ last.result # {})

\* C3: policies_evaluated lists the effective policies in ascending priority
\* order whatever the order of the input list, equal priorities keeping their
\* input order; a returned result carries that list.
C3_EvaluatedInStablePriorityOrder ==
    ValidatedHere =>
        /\ ListsInOrder(last.policies_evaluated, EffectiveIds, IdOfId)
        /\ last.result # {} =>
              Some(last.result).policies_evaluated = last.policies_evaluated

\* C3 witness: a result is returned for an input list in descending priority
\* order, and another policy pair of equal priority exists in the same run
C3_Witness ==
    /\ ValidatedHere
    /\ last.result # {}
    /\ Len(policies) = 2
    /\ policies[1].priority > policies[2].priority
    /\ last.policies_evaluated = <<2, 1>>

\* the policies that are inactive or already expired at the call's first
\* clock reading
DeadIds ==
    {k \in 1..Len(policies) :
        \/ ~policies[k].is_active
        \/ policies[k].expires_at # {} /\ Some(policies[k].expires_at) < last.t_first}

\* C4: a policy that is inactive or whose expiry is in the past when validate
\* is called is absent from policies_evaluated and no violation names it,
\* whatever the transaction is.
C4_DeadPoliciesContributeNothing ==
    ValidatedHere =>
        \A k \in DeadIds :
            /\ \A i \in 1..Len(last.policies_evaluated) : last.policies_evaluated[i] # k
            /\ \A i \in 1..Len(last.violations) :
                    last.violations[i].policy_name # policies[k].name
            /\ last.result # {} =>
                  /\ \A i \in 1..Len(Some(last.result).policies_evaluated) :
                        Some(last.result).policies_evaluated[i] # k
                  /\ \A i \in 1..Len(Some(last.result).violations) :
                        Some(last.result).violations[i].policy_name # policies[k].name

\* C4 witness: an active policy the transaction fails has expired, the call
\* returns APPROVED and did not evaluate it
C4_Witness ==
    /\ ValidatedHere
    /\ last.result # {}
    /\ Some(last.result).status = "APPROVED"
    /\ \E k \in DeadIds : /\ policies[k].is_active
                          /\ FailingChecks(tx, policies[k]) # {}

Outcome(call) ==
    <<call.raised, call.status, call.violations, call.policies_evaluated>>

TwoCalls == prev.kind = "validate" /\ last.kind = "validate"

\* C7 as stated: two calls with the same inputs yield identical status,
\* violations and policies_evaluated.
C7_Original == TwoCalls => Outcome(prev) = Outcome(last)

\* no policy of the list has its expiry instant within the clock readings of
\* the two calls
NoExpiryBetweenCalls ==
    \A k \in 1..Len(policies) :
        \/ policies[k].expires_at = {}
        \/ Some(policies[k].expires_at) < prev.t_first
        \/ Some(policies[k].expires_at) >= last.t_last

\* C7 amended: two calls with the same inputs yield identical status,
\* violations and policies_evaluated provided no policy of the list expires
\* between the first clock reading of the one and the last of the other.
C7_DeterministicGivenTheClock ==
    (TwoCalls /\ NoExpiryBetweenCalls) => Outcome(prev) = Outcome(last)

\* C7 witness: two calls at different clock readings evaluate a policy that
\* carries an expiry, and agree
C7_Witness ==
    /\ TwoCalls
    /\ NoExpiryBetweenCalls
    /\ prev.t_first < last.t_last
    /\ \E i \in 1..Len(last.policies_evaluated) :
            policies[last.policies_evaluated[i]].expires_at # {}
    /\ Outcome(prev) = Outcome(last)

-----------------------------------------------------------------------------
\* Texts.  A text is a sequence of symbols (words, numbers, punctuation marks);
\* "needle in text" is the contiguous-subsequence test and lower() maps
\* symbol by symbol.

LowerTable ==
    [x \in {"CONFLICT", "WARNING", "Policy", "NO", "No", "This", "These",
            "Consider", "Per", "A", "B", "IN-DL", "IN-KA"} |->
        CASE x = "CONFLICT" -> "conflict"
          [] x = "WARNING" -> "warning"
          [] x = "Policy" -> "policy"
          [] x = "NO" -> "no"
          [] x = "No" -> "no"
          [] x = "This" -> "this"
          [] x = "These" -> "these"
          [] x = "Consider" -> "consider"
          [] x = "Per" -> "per"
          [] x = "A" -> "a"
          [] x = "B" -> "b"
          [] x = "IN-DL" -> "in-dl"
          [] x = "IN-KA" -> "in-ka"]

\* str.lower()
lower(text) ==
    [i \in DOMAIN text |->
        IF text[i] \in DOMAIN LowerTable THEN LowerTable[text[i]] ELSE text[i]]

\* needle in text
Contains(text, needle) ==
    \E i \in 1..(Len(text) - Len(needle) + 1) :
        SubSeq(text, i, i + Len(needle) - 1) = needle

RECURSIVE SetText(_)
\* the elements of a set in the order the f-string prints them (some order)
SetText(S) ==
    IF S = {} THEN <<>>
    ELSE LET x == CHOOSE y \in S : TRUE IN <<x>> \o SetText(S \ {x})

\* a set printed in an f-string
SetStr(S) == <<"{">> \o SetText(S) \o <<"}">>

\* an optional number printed in an f-string
NumStr(n) == <<ToString(Some(n))>>

\* Python truthiness of an optional number: None and 0 are falsy
Truthy(n) == n # {} /\ Some(n) # 0

\* timedelta.total_seconds() of a difference of two expiries; expiries of
\* policies are counted in half days
total_seconds(d) == d * 43200

abs(x) == IF x < 0 THEN 0 - x ELSE x

-----------------------------------------------------------------------------
\* Conflict Analyzer (PolicyService._detect_conflicts, detect_all_conflicts).
\* The program handles a conflict as its description only.  The model keeps,
\* beside the text, which rule wrote it and against which stored policy; no
\* definition of the program reads these two fields.

Conflict(text, rule, existing) ==
    [text |-> text, rule |-> rule, existing |-> existing.policy_id]

\* rule 1: two category restrictions with no common category
category_conflict(policy, existing) ==
    LET new_categories == policy.rules.allowed_categories
        existing_categories == existing.rules.allowed_categories
    IN  IF /\ policy.policy_type = "category_restriction"
           /\ existing.policy_type = "category_restriction"
           /\ new_categories # {}
           /\ existing_categories # {}
           /\ new_categories \cap existing_categories = {}
        THEN <<Conflict(
                <<"CONFLICT", ":", "Policy", "'">> \o policy.name
                \o <<"'", "allows", "categories">> \o SetStr(new_categories)
                \o <<"which", "have", "NO", "overlap", "with", "existing",
                     "policy", "'">> \o existing.name
                \o <<"'", "categories">> \o SetStr(existing_categories)
                \o <<".", "This", "creates", "impossible", "conditions", "-",
                     "no", "transaction", "can", "satisfy", "both", "policies",
                     ".">>,
                "category", existing)>>
        ELSE <<>>

\* rule 2: the new limit is below a tenth of the stored one.  The program
\* compares with the float product existing * 0.1; for whole amounts of which
\* none is ten times another this is 10 * new < existing.
amount_conflict(policy, existing) ==
    IF /\ Truthy(policy.rules.max_amount)
       /\ Truthy(existing.rules.max_amount)
       /\ 10 * Some(policy.rules.max_amount) < Some(existing.rules.max_amount)
    THEN <<Conflict(
            <<"CONFLICT", ":", "Policy", "'">> \o policy.name
            \o <<"'", "max_amount", "(">> \o NumStr(policy.rules.max_amount)
            \o <<")", "is", "significantly", "lower", "than", "'">>
            \o existing.name
            \o <<"'", "(">> \o NumStr(existing.rules.max_amount)
            \o <<")", ".", "Consider", "consolidating", "limits", ".">>,
            "amount", existing)>>
    ELSE <<>>

\* rule 3: the new per-transaction cap exceeds the stored limit
cap_conflict(policy, existing) ==
    IF /\ Truthy(policy.rules.per_transaction_cap)
       /\ Truthy(existing.rules.max_amount)
       /\ Some(policy.rules.per_transaction_cap) > Some(existing.rules.max_amount)
    THEN <<Conflict(
            <<"CONFLICT", ":", "Policy", "'">> \o policy.name
            \o <<"'", "per_transaction_cap", "(">>
            \o NumStr(policy.rules.per_transaction_cap)
            \o <<")", "exceeds", "existing", "policy", "'">> \o existing.name
            \o <<"'", "max_amount", "(">> \o NumStr(existing.rules.max_amount)
            \o <<")", ".", "Per", "-", "transaction", "cap", "should", "not",
                 "exceed", "total", "spending", "limit", ".">>,
            "cap", existing)>>
    ELSE <<>>

\* rule 4: two geo-fences with no common location
geo_conflict(policy, existing) ==
    LET new_geos == policy.rules.geo_fence
        existing_geos == existing.rules.geo_fence
    IN  IF new_geos # {} /\ existing_geos # {} /\ new_geos \cap existing_geos = {}
        THEN <<Conflict(
                <<"CONFLICT", ":", "Policy", "'">> \o policy.name
                \o <<"'", "geo_fence">> \o SetStr(new_geos)
                \o <<"has", "NO", "overlap", "with", "existing", "policy", "'">>
                \o existing.name
                \o <<"'", "geo_fence">> \o SetStr(existing_geos)
                \o <<".", "No", "location", "can", "satisfy", "both",
                     "policies", ".">>,
                "geo", existing)>>
        ELSE <<>>

\* rule 5: the new whitelist meets the stored blacklist
merchant_conflict(policy, existing) ==
    LET overlap == policy.rules.merchant_whitelist
                   \cap existing.rules.merchant_blacklist
    IN  IF /\ policy.rules.merchant_whitelist # {}
           /\ existing.rules.merchant_blacklist # {}
           /\ overlap # {}
        THEN <<Conflict(
                <<"CONFLICT", ":", "Policy", "'">> \o policy.name
                \o <<"'", "whitelists", "merchants">> \o SetStr(overlap)
                \o <<"but", "existing", "policy", "'">> \o existing.name
                \o <<"'", "blacklists", "them", ".", "These", "merchants",
                     "are", "in", "impossible", "state", "(", "both", "allowed",
                     "and", "blocked", ")", ".">>,
                "merchant", existing)>>
        ELSE <<>>

\* rule 6: two different expiries less than a day (86400 s) apart
expiry_conflict(policy, existing) ==
    LET time_diff == abs(total_seconds(Some(policy.rules.expiry)
                                       - Some(existing.rules.expiry)))
    IN  IF /\ policy.rules.expiry # {}
           /\ existing.rules.expiry # {}
           /\ 0 < time_diff
           /\ time_diff < 86400
        THEN <<Conflict(
                <<"WARNING", ":", "Policy", "'">> \o policy.name
                \o <<"'", "and", "'">> \o existing.name
                \o <<"'", "have", "expiries", "within", "24", "hours", "of",
                     "each", "other", ".", "This", "may", "cause", "unexpected",
                     "policy", "cascade", "effects", ".">>,
                "expiry", existing)>>
        ELSE <<>>

RECURSIVE detect_conflicts_from_effective(_, _, _)
\* faulty variant: the loop also passes over the stored policies whose expiry
\* is in the past
detect_conflicts_from_effective(policy, existing_policies, i) ==
    IF i > Len(existing_policies) THEN <<>>
    ELSE LET existing == existing_policies[i]
             here == IF ~existing.is_active \/ is_expired(existing, now) THEN <<>>
                     ELSE category_conflict(policy, existing)
                          \o amount_conflict(policy, existing)
                          \o cap_conflict(policy, existing)
                          \o geo_conflict(policy, existing)
                          \o merchant_conflict(policy, existing)
                          \o expiry_conflict(policy, existing)
         IN  here \o detect_conflicts_from_effective(policy, existing_policies,
                                                     i + 1)

RECURSIVE detect_conflicts_from(_, _, _)
\* the loop of _detect_conflicts over the stored policies, from position i
detect_conflicts_from(policy, existing_policies, i) ==
    IF i > Len(existing_policies) THEN <<>>
    ELSE LET existing == existing_policies[i]
             here == IF ~existing.is_active THEN <<>>
                     ELSE category_conflict(policy, existing)
                          \o amount_conflict(policy, existing)
                          \o cap_conflict(policy, existing)
                          \o geo_conflict(policy, existing)
                          \o merchant_conflict(policy, existing)
                          \o expiry_conflict(policy, existing)
         IN  here \o detect_conflicts_from(policy, existing_policies, i + 1)

\* PolicyService._detect_conflicts on the store st
detect_conflicts(policy, st) == detect_conflicts_from(policy, st, 1)


\* PolicyService._assess_conflict_severity
assess_conflict_severity(conflict_description) ==
    IF Contains(lower(conflict_description), <<"impossible">>) THEN "CRITICAL"
    ELSE IF Contains(lower(conflict_description), <<"contradictory">>) THEN "HIGH"
    ELSE IF Contains(lower(conflict_description), <<"warning">>) THEN "LOW"
    ELSE "MEDIUM"

\* the entries detect_all_conflicts appends for policy_a and policy_b
conflict_entries(policy_a, policy_b, st) ==
    LET conflicts == detect_conflicts(policy_a, st)
        kept == SelectSeq(conflicts, LAMBDA c : Contains(c.text, policy_b.name))
    IN  [k \in 1..Len(kept) |->
            [policy_a |-> policy_a.policy_id,
             policy_a_name |-> policy_a.name,
             policy_b |-> policy_b.policy_id,
             policy_b_name |-> policy_b.name,
             conflict_description |-> kept[k].text,
             severity |-> assess_conflict_severity(kept[k].text),
             rule |-> kept[k].rule,
             existing |-> kept[k].existing]]

RECURSIVE all_conflicts_from(_, _, _)
\* the two nested loops of detect_all_conflicts, from the pair (i, j)
all_conflicts_from(policy_list, i, j) ==
    IF i > Len(policy_list) THEN <<>>
    ELSE IF j > Len(policy_list) \/ ~policy_list[i].is_active
         THEN all_conflicts_from(policy_list, i + 1, i + 2)
    ELSE (IF ~policy_list[j].is_active THEN <<>>
          ELSE conflict_entries(policy_list[i], policy_list[j], policy_list))
         \o all_conflicts_from(policy_list, i, j + 1)

\* PolicyService.detect_all_conflicts on the store st
detect_all_conflicts(st) ==
    LET all_conflicts == all_conflicts_from(st, 1, 2)
    IN  [total_conflicts |-> Len(all_conflicts),
         conflicts |-> all_conflicts,
         has_critical_conflicts |->
            \E k \in 1..Len(all_conflicts) : all_conflicts[k].severity = "CRITICAL"]

-----------------------------------------------------------------------------
\* Policy store and wallets (PolicyService, WalletService)

\* faulty variant: the validation stops at the first error it finds
validate_schema_first_error(policy) ==
    IF Len(policy.name) = 0 THEN <<"Policy name is required">>
    ELSE IF policy.rules.max_amount # {} /\ Some(policy.rules.max_amount) <= 0
    THEN <<"max_amount must be positive">>
    ELSE IF /\ policy.rules.per_transaction_cap # {}
            /\ policy.rules.max_amount # {}
            /\ Some(policy.rules.per_transaction_cap)
                 > Some(policy.rules.max_amount)
    THEN <<"per_transaction_cap cannot exceed max_amount">>
    ELSE <<>>

\* Policy.validate_schema
validate_schema(policy) ==
    (IF Len(policy.name) = 0 THEN <<"Policy name is required">> ELSE <<>>)
    \o (IF policy.rules.max_amount # {} /\ Some(policy.rules.max_amount) <= 0
        THEN <<"max_amount must be positive">> ELSE <<>>)
    \o (IF /\ policy.rules.per_transaction_cap # {}
           /\ policy.rules.max_amount # {}
           /\ Some(policy.rules.per_transaction_cap)
                > Some(policy.rules.max_amount)
        THEN <<"per_transaction_cap cannot exceed max_amount">> ELSE <<>>)

\* a PolicyCreate payload
PolicyCreate(name, type, rules, wallet_id, prio) ==
    [name |-> name, policy_type |-> type, rules |-> rules,
     wallet_id |-> wallet_id, priority |-> prio]

\* a Wallet; wallet ids are the positions of the sequence wallets, the
\* compliance score is in hundredths
Wallet(id, balance) ==
    [wallet_id |-> id, balance |-> balance, compliance_score |-> 100,
     attached_policies |-> <<>>]

InSeq(x, s) == \E k \in 1..Len(s) : s[k] = x

\* WalletService.attach_policy; ws is the wallets, the result the wallets
\* after the call and whether WalletNotFoundException was raised
attach_policy(ws, wallet_id, policy_id) ==
    IF wallet_id \notin DOMAIN ws
    THEN [raised |-> "WalletNotFoundException", wallets |-> ws]
    ELSE [raised |-> NoneStr,
          wallets |->
            IF InSeq(policy_id, ws[wallet_id].attached_policies) THEN ws
            ELSE [ws EXCEPT ![wallet_id].attached_policies = Append(@, policy_id)]]

\* PolicyService.create_policy with the next policy id; the result is the
\* store and the wallets after the call and what the call returned or raised
create_policy(st, ws, policy_data, id) ==
    LET expires_at == policy_data.rules.expiry
        policy == Policy(id, policy_data.name, policy_data.policy_type,
                         policy_data.rules, policy_data.priority, TRUE,
                         expires_at, <<>>)
        schema_errors == validate_schema(policy)
        conflicts == detect_conflicts(policy, st)
        attached == IF policy_data.wallet_id # {}
                    THEN [policy EXCEPT !.attached_wallets =
                            Append(@, Some(policy_data.wallet_id))]
                    ELSE policy
        ws2 == IF policy_data.wallet_id # {}
               THEN attach_policy(ws, Some(policy_data.wallet_id), id).wallets
               ELSE ws
    IN  IF Len(schema_errors) > 0
        THEN [raised |-> "ValidationException", errors |-> schema_errors,
              store |-> st, wallets |-> ws, policy |-> {}, conflicts |-> <<>>]
        ELSE [raised |-> NoneStr, errors |-> <<>>,
              store |-> Append(st, attached), wallets |-> ws2,
              policy |-> {attached},
              conflicts |-> [k \in 1..Len(conflicts) |-> conflicts[k].text]]

\* the position in the store of the policy with this id, 0 if there is none
IndexOf(st, policy_id) ==
    IF \E k \in 1..Len(st) : st[k].policy_id = policy_id
    THEN CHOOSE k \in 1..Len(st) : st[k].policy_id = policy_id
    ELSE 0

\* PolicyService.update_policy; updates maps field names to optional values,
\* and a field whose value is None is left alone
update_policy(st, policy_id, updates) ==
    LET k == IndexOf(st, policy_id)
        policy == st[k]
        updated == [f \in DOMAIN policy |->
                        IF f \in DOMAIN updates /\ updates[f] # {}
                        THEN Some(updates[f]) ELSE policy[f]]
    IN  IF k = 0
        THEN [raised |-> "PolicyNotFoundException", store |-> st]
        ELSE [raised |-> NoneStr, store |-> [st EXCEPT ![k] = updated]]

-----------------------------------------------------------------------------
\* Policy store: inputs and steps

MaxStore == 2

MaxWallets == 1

StoreNames == {<<"A">>, <<"B">>}

InitialBalances == {0, 10}

\* the rule bundles of the payloads; the last three fail the schema validation
StoreRules ==
    {PolicyRules({"education"}, {}, {}, {}, {}, {}, {}),
     PolicyRules({"food"}, {}, {}, {}, {}, {}, {}),
     PolicyRules({}, {1}, {}, {}, {}, {}, {}),
     PolicyRules({}, {20}, {}, {}, {}, {}, {}),
     PolicyRules({}, {}, {5}, {}, {}, {}, {}),
     PolicyRules({}, {}, {}, {"IN-DL"}, {}, {}, {}),
     PolicyRules({}, {}, {}, {"IN-KA"}, {}, {}, {}),
     PolicyRules({}, {}, {}, {}, {"m1"}, {}, {}),
     PolicyRules({}, {}, {}, {}, {}, {"m1"}, {}),
     PolicyRules({}, {}, {}, {}, {}, {}, {1}),
     PolicyRules({}, {}, {}, {}, {}, {}, {2}),
     PolicyRules({}, {}, {}, {}, {}, {}, {3}),
     PolicyRules({}, {1}, {5}, {}, {}, {}, {}),
     PolicyRules({}, {0}, {}, {}, {}, {}, {}),
     PolicyRules({}, {0}, {5}, {}, {}, {}, {})}

PolicyPayloads ==
    {PolicyCreate(n, TypeOf(r), r, w, 0) :
        n \in StoreNames, r \in StoreRules,
        w \in {{}} \cup {{k} : k \in 1..MaxWallets}}

PolicyUpdates == {[is_active |-> {FALSE}], [is_active |-> {TRUE}]}

InitPolicy ==
    /\ tx = Transaction(1, 1, 1, "education", NoneStr, NoneStr)
    /\ policies = <<>>
    /\ now = 0
    /\ last = NoCall
    /\ prev = NoCall
    /\ transaction_history = <<>>
    /\ store = <<>>
    /\ wallets = <<>>
    /\ transactions = <<>>
    /\ clawbacks = <<>>
    /\ calls = <<>>

\* WalletService.create_wallet
CreateWallet ==
    \E initial_balance \in InitialBalances :
        /\ Len(wallets) < MaxWallets
        /\ wallets' = Append(wallets, Wallet(Len(wallets) + 1, initial_balance))
        /\ last' = [kind |-> "create_wallet", raised |-> NoneStr,
                    wallet_id |-> Len(wallets) + 1,
                    initial_balance |-> initial_balance]
        /\ UNCHANGED <<calls, now, valVars, store, transactions, clawbacks>>

\* PolicyService.create_policy
CreatePolicy ==
    \E policy_data \in PolicyPayloads :
        LET r == create_policy(store, wallets, policy_data, Len(store) + 1)
        IN  /\ Len(store) < MaxStore
            /\ store' = r.store
            /\ wallets' = r.wallets
            /\ last' = [kind |-> "create_policy", raised |-> r.raised,
                        errors |-> r.errors, policy |-> r.policy,
                        conflicts |-> r.conflicts, policy_data |-> policy_data]
            /\ UNCHANGED <<calls, now, valVars, transactions, clawbacks>>

\* PolicyService.update_policy
UpdatePolicy ==
    \E policy_id \in 1..MaxStore, updates \in PolicyUpdates :
        LET r == update_policy(store, policy_id, updates)
        IN  /\ store' = r.store
            /\ last' = [kind |-> "update_policy", raised |-> r.raised,
                        policy_id |-> policy_id]
            /\ UNCHANGED <<calls, now, valVars, wallets, transactions, clawbacks>>

\* PolicyService.detect_all_conflicts
DetectAllConflicts ==
    /\ last' = [kind |-> "detect_all_conflicts", raised |-> NoneStr,
                report |-> detect_all_conflicts(store)]
    /\ UNCHANGED <<calls, now, valVars, storeVars>>

NextPolicy == CreateWallet \/ CreatePolicy \/ UpdatePolicy \/ DetectAllConflicts

SpecPolicy == InitPolicy /\ [][NextPolicy]_vars

-----------------------------------------------------------------------------
\* Conflict Analyzer: what a conflict report has to satisfy

\* a conflict report has just been returned
DetectedHere == last.kind = "detect_all_conflicts"

\* the store with its policies in another insertion order
Permuted(st, q) == [k \in 1..Len(st) |-> st[q[k]]]

InsertionOrders(n) ==
    {q \in [1..n -> 1..n] : \A a, b \in 1..n : q[a] = q[b] => a = b}

\* the reported conflicts as unordered pairs of policies with the rule
PairsAndRules(report) ==
    {<<{report.conflicts[k].policy_a, report.conflicts[k].policy_b},
       report.conflicts[k].rule>> : k \in 1..Len(report.conflicts)}

\* no pair is reported twice for one rule
OncePerRule(report) ==
    \A k, m \in 1..Len(report.conflicts) :
        /\ {report.conflicts[k].policy_a, report.conflicts[k].policy_b}
            = {report.conflicts[m].policy_a, report.conflicts[m].policy_b}
        /\ report.conflicts[k].rule = report.conflicts[m].rule
        => k = m

\* C8: the conflicts reported for a store (unordered pair of policies and
\* rule) are the same for every insertion order of its policies, and a pair
\* is reported once per rule.
C8_ConflictsIndependentOfInsertionOrder ==
    DetectedHere =>
        /\ OncePerRule(last.report)
        /\ \A q \in InsertionOrders(Len(store)) :
              PairsAndRules(detect_all_conflicts(Permuted(store, q)))
                = PairsAndRules(last.report)

\* the severity the specification gives to each pairwise rule
SeverityOfRule(rule) ==
    CASE rule = "category" -> "CRITICAL"
      [] rule = "amount" -> "MEDIUM"
      [] rule = "cap" -> "HIGH"
      [] rule = "geo" -> "CRITICAL"
      [] rule = "merchant" -> "CRITICAL"
      [] rule = "expiry" -> "LOW"

\* C9: every entry of a conflict report has the severity of the rule that
\* fired, and has_critical_conflicts holds exactly when some entry is CRITICAL.
C9_SeverityOfTheFiredRule ==
    DetectedHere =>
        /\ \A k \in 1..Len(last.report.conflicts) :
              last.report.conflicts[k].severity
                = SeverityOfRule(last.report.conflicts[k].rule)
        /\ last.report.has_critical_conflicts
            <=> \E k \in 1..Len(last.report.conflicts) :
                    last.report.conflicts[k].severity = "CRITICAL"

-----------------------------------------------------------------------------
\* Clawback Engine (ClawbackService, WalletService.update_balance)

\* the amount execute_clawback reverses for a transaction it does not know
MockAmount == 5000

\* update_balance with the credit branch leaving the balance alone
update_balance_credit_dropped(ws, wallet_id, amount, operation) ==
    IF wallet_id \notin DOMAIN ws
    THEN [raised |-> "WalletNotFoundException", wallets |-> ws]
    ELSE IF operation = "debit" /\ ws[wallet_id].balance < amount
    THEN [raised |-> "InsufficientBalanceException", wallets |-> ws]
    ELSE IF operation = "debit"
    THEN [raised |-> NoneStr,
          wallets |-> [ws EXCEPT ![wallet_id].balance = @ - amount]]
    ELSE [raised |-> NoneStr, wallets |-> ws]

\* faulty variant: a debit is not checked against the balance
update_balance_unchecked_debit(ws, wallet_id, amount, operation) ==
    IF wallet_id \notin DOMAIN ws
    THEN [raised |-> "WalletNotFoundException", wallets |-> ws]
    ELSE IF operation = "debit"
    THEN [raised |-> NoneStr,
          wallets |-> [ws EXCEPT ![wallet_id].balance = @ - amount]]
    ELSE IF operation = "credit"
    THEN [raised |-> NoneStr,
          wallets |-> [ws EXCEPT ![wallet_id].balance = @ + amount]]
    ELSE [raised |-> NoneStr, wallets |-> ws]

\* WalletService.update_balance; the result is the wallets after the call
\* and the exception raised, if any
update_balance(ws, wallet_id, amount, operation) ==
    IF wallet_id \notin DOMAIN ws
    THEN [raised |-> "WalletNotFoundException", wallets |-> ws]
    ELSE IF operation = "debit" /\ ws[wallet_id].balance < amount
    THEN [raised |-> "InsufficientBalanceException", wallets |-> ws]
    ELSE IF operation = "debit"
    THEN [raised |-> NoneStr,
          wallets |-> [ws EXCEPT ![wallet_id].balance = @ - amount]]
    ELSE IF operation = "credit"
    THEN [raised |-> NoneStr,
          wallets |-> [ws EXCEPT ![wallet_id].balance = @ + amount]]
    ELSE [raised |-> NoneStr, wallets |-> ws]

\* a ClawbackRequest
ClawbackRequest(transaction_id, wallet_id, reason, force) ==
    [transaction_id |-> transaction_id, wallet_id |-> wallet_id,
     reason |-> reason, force |-> force]

\* ClawbackService._generate_clawback_explanation, as the template chosen and
\* the values put into it
generate_clawback_explanation(reason, amount, status) ==
    IF status = "EXECUTED"
    THEN [template |-> "CLAWBACK EXECUTED", reason |-> reason, amount |-> {amount}]
    ELSE IF status = "FAILED"
    THEN [template |-> "CLAWBACK FAILED", reason |-> NoneStr, amount |-> {}]
    ELSE [template |-> "CLAWBACK PENDING", reason |-> reason, amount |-> {}]

\* faulty variant: a transaction the service does not know is never rejected
transaction_rejected_never(txs, clawback_request) == FALSE

\* the test of execute_clawback that rejects a request: the transaction is
\* not known and force is not set
transaction_rejected(txs, clawback_request) ==
    /\ clawback_request.transaction_id \notin DOMAIN txs
    /\ ~clawback_request.force

\* where an exception of the environment (a MemoryError, say) may strike the
\* credit phase of execute_clawback, the try block of lines 87-104: nowhere,
\* before update_balance has added the amount, or after it has
CreditFaults == {"none", "before_credit", "after_credit"}

\* faulty variant: the records are keyed by the transaction, so a record
\* replaces the earlier record of the same transaction
record_clawback_by_transaction(cbs, clawback_record) ==
    IF \E k \in 1..Len(cbs) : cbs[k].transaction_id = clawback_record.transaction_id
    THEN [k \in 1..Len(cbs) |->
            IF cbs[k].transaction_id = clawback_record.transaction_id
            THEN clawback_record ELSE cbs[k]]
    ELSE Append(cbs, clawback_record)

\* self.clawbacks[clawback_record.clawback_id] = clawback_record, with the
\* new clawback_id the record was made with
record_clawback(cbs, clawback_record) == Append(cbs, clawback_record)

\* ClawbackService.execute_clawback; txs is ClawbackService.transactions, cbs
\* ClawbackService.clawbacks, ws the wallets, fault the place where the
\* credit phase is struck.  The result is the wallets and the clawbacks
\* after the call and the ClawbackResult or the exception.
execute_clawback_with(txs, cbs, ws, clawback_request, fault) ==
    LET known == clawback_request.transaction_id \in DOMAIN txs
        amount_to_reverse ==
            IF known THEN txs[clawback_request.transaction_id].amount
            ELSE MockAmount
        violations == IF known THEN <<>>
                      ELSE <<"Transaction not found in system">>
        previous_balance == ws[clawback_request.wallet_id].balance
        credited == update_balance(ws, clawback_request.wallet_id,
                                   amount_to_reverse, "credit")
        credit == IF fault = "before_credit"
                  THEN [raised |-> "Exception", wallets |-> ws]
                  ELSE IF fault = "after_credit" /\ credited.raised = NoneStr
                  THEN [raised |-> "Exception", wallets |-> credited.wallets]
                  ELSE credited
        status == IF credit.raised = NoneStr THEN "EXECUTED" ELSE "FAILED"
        new_balance ==
            IF credit.raised = NoneStr
            THEN credit.wallets[clawback_request.wallet_id].balance
            ELSE previous_balance
        explanation ==
            IF credit.raised = NoneStr
            THEN generate_clawback_explanation(clawback_request.reason,
                                               amount_to_reverse, status)
            ELSE [template |-> "Clawback failed", reason |-> credit.raised,
                  amount |-> {}]
        clawback_record ==
            [clawback_id |-> Len(cbs) + 1,
             transaction_id |-> clawback_request.transaction_id,
             wallet_id |-> clawback_request.wallet_id,
             amount |-> amount_to_reverse,
             reason |-> clawback_request.reason,
             status |-> status,
             explanation |-> explanation]
    IN  IF clawback_request.wallet_id \notin DOMAIN ws
        THEN [raised |-> "WalletNotFoundException", wallets |-> ws,
              clawbacks |-> cbs, result |-> {}]
        ELSE IF transaction_rejected(txs, clawback_request)
        THEN [raised |-> "ValidationException", wallets |-> ws,
              clawbacks |-> cbs, result |-> {}]
        ELSE [raised |-> NoneStr, wallets |-> credit.wallets,
              clawbacks |-> record_clawback(cbs, clawback_record),
              result |->
                {[clawback_id |-> clawback_record.clawback_id,
                  transaction_id |-> clawback_request.transaction_id,
                  wallet_id |-> clawback_request.wallet_id,
                  status |-> status,
                  reason |-> clawback_request.reason,
                  amount_reversed |-> amount_to_reverse,
                  previous_balance |-> previous_balance,
                  new_balance |-> new_balance,
                  explanation |-> explanation,
                  violations |-> violations]}]

\* ClawbackService.execute_clawback when nothing strikes the credit phase
execute_clawback(txs, cbs, ws, clawback_request) ==
    execute_clawback_with(txs, cbs, ws, clawback_request, "none")

\* ClawbackService.register_transaction
register_transaction(txs, transaction) ==
    (transaction.transaction_id :> transaction) @@ txs

-----------------------------------------------------------------------------
\* Clawback Engine: inputs and steps

MaxClawbacks == 2

\* the transaction ids the requests and the registrations speak of
TransactionIds == {1, 2}

ClawbackReasons == {"POLICY_VIOLATION", "MANUAL_REVERSAL"}

\* the transactions that may be registered for a later clawback
ClawbackTransactions ==
    {Transaction(id, 1, a, "education", NoneStr, NoneStr) :
        id \in TransactionIds, a \in {3, 5}}

ClawbackRequests ==
    {ClawbackRequest(id, w, r, f) :
        id \in TransactionIds, w \in 1..MaxWallets,
        r \in ClawbackReasons, f \in BOOLEAN}

InitClawback ==
    /\ tx = Transaction(1, 1, 1, "education", NoneStr, NoneStr)
    /\ policies = <<>>
    /\ now = 0
    /\ last = NoCall
    /\ prev = NoCall
    /\ transaction_history = <<>>
    /\ store = <<>>
    /\ wallets = <<>>
    /\ transactions = <<>>
    /\ clawbacks = <<>>
    /\ calls = <<>>

\* ClawbackService.register_transaction
RegisterTransaction ==
    \E transaction \in ClawbackTransactions :
        /\ transactions' = register_transaction(transactions, transaction)
        /\ last' = [kind |-> "register_transaction", raised |-> NoneStr,
                    transaction_id |-> transaction.transaction_id]
        /\ UNCHANGED <<calls, now, valVars, store, wallets, clawbacks>>

\* ClawbackService.execute_clawback.  The call record keeps, beside what the
\* call returned, the request and the balance the wallet had before the call.
ExecuteClawback ==
    \E clawback_request \in ClawbackRequests :
        LET r == execute_clawback(transactions, clawbacks, wallets,
                                  clawback_request)
        IN  /\ Len(clawbacks) < MaxClawbacks
            /\ wallets' = r.wallets
            /\ clawbacks' = r.clawbacks
            /\ last' = [kind |-> "execute_clawback", raised |-> r.raised,
                        request |-> clawback_request, result |-> r.result,
                        fault |-> "none",
                        balance_before |->
                            IF clawback_request.wallet_id \in DOMAIN wallets
                            THEN {wallets[clawback_request.wallet_id].balance}
                            ELSE {}]
            /\ UNCHANGED <<calls, now, valVars, store, transactions>>

NextClawback == CreateWallet \/ RegisterTransaction \/ ExecuteClawback

SpecClawback == InitClawback /\ [][NextClawback]_vars

-----------------------------------------------------------------------------
\* Clawback Engine: what a clawback has to satisfy

\* a clawback has just been asked for a known transaction on an existing wallet
ClawbackOfKnownHere ==
    /\ last.kind = "execute_clawback"
    /\ last.request.wallet_id \in DOMAIN wallets
    /\ last.request.transaction_id \in DOMAIN transactions

\* C10: a clawback of a known transaction on an existing wallet returns
\* EXECUTED with new_balance = previous_balance + amount_reversed, where
\* previous_balance is the balance before the call, amount_reversed the stored
\* amount of the transaction, and the wallet then holds new_balance.
C10_ClawbackRestoresTheAmount ==
    ClawbackOfKnownHere =>
        /\ last.raised = NoneStr
        /\ \A result \in last.result :
              /\ result.status = "EXECUTED"
              /\ result.new_balance = result.previous_balance + result.amount_reversed
              /\ last.balance_before = {result.previous_balance}
              /\ result.amount_reversed
                    = transactions[last.request.transaction_id].amount
              /\ wallets[last.request.wallet_id].balance = result.new_balance

\* a clawback of a known transaction of amount 5 on a wallet holding 10
C10_Witness ==
    /\ ClawbackOfKnownHere
    /\ \E result \in last.result :
          /\ result.status = "EXECUTED"
          /\ result.previous_balance = 10
          /\ result.amount_reversed = 5
          /\ result.new_balance = 15


\* the request of the latest clawback had been executed before that call:
\* an earlier record has its transaction, wallet and reason and is EXECUTED
RepeatedClawbackHere ==
    /\ last.kind = "execute_clawback"
    /\ last.raised = NoneStr
    /\ \E k \in 1..(Len(clawbacks) - 1) :
          /\ clawbacks[k].transaction_id = last.request.transaction_id
          /\ clawbacks[k].wallet_id = last.request.wallet_id
          /\ clawbacks[k].reason = last.request.reason
          /\ clawbacks[k].status = "EXECUTED"

\* C11: executing a clawback request again after it was executed leaves the
\* wallet balance as it was after the first execution, that is, as it was
\* before the repeated call.
C11_RepeatedClawbackKeepsTheBalance ==
    RepeatedClawbackHere =>
        \A b \in last.balance_before :
            wallets[last.request.wallet_id].balance = b

-----------------------------------------------------------------------------
\* Clawback Engine when the credit phase may be struck by an exception

\* ClawbackService.execute_clawback for a request that reaches the credit
\* phase, with an exception raised in that phase
ExecuteClawbackStruck ==
    \E clawback_request \in ClawbackRequests,
       fault \in CreditFaults \ {"none"} :
        LET r == execute_clawback_with(transactions, clawbacks, wallets,
                                       clawback_request, fault)
        IN  /\ Len(clawbacks) < MaxClawbacks
            /\ clawback_request.wallet_id \in DOMAIN wallets
            /\ \/ clawback_request.transaction_id \in DOMAIN transactions
               \/ clawback_request.force
            /\ wallets' = r.wallets
            /\ clawbacks' = r.clawbacks
            /\ last' = [kind |-> "execute_clawback", raised |-> r.raised,
                        request |-> clawback_request, result |-> r.result,
                        fault |-> fault,
                        balance_before |->
                            {wallets[clawback_request.wallet_id].balance}]
            /\ UNCHANGED <<calls, now, valVars, store, transactions>>

NextClawbackFaults ==
    CreateWallet \/ RegisterTransaction \/ ExecuteClawback \/ ExecuteClawbackStruck

SpecClawbackFaults == InitClawback /\ [][NextClawbackFaults]_vars

\* the credit phase of the latest clawback raised
CreditPhaseRaisedHere ==
    last.kind = "execute_clawback" /\ last.fault # "none"

\* C12: when a step of the credit phase raises, execute_clawback raises
\* nothing, stores a FAILED record, reports previous_balance = new_balance,
\* and the wallet holds the balance it had before the call.
C12_FailedCreditLeavesTheWalletAlone ==
    CreditPhaseRaisedHere =>
        /\ last.raised = NoneStr
        /\ Len(clawbacks) > 0
        /\ clawbacks[Len(clawbacks)].status = "FAILED"
        /\ clawbacks[Len(clawbacks)].transaction_id = last.request.transaction_id
        /\ \A result \in last.result :
              /\ result.status = "FAILED"
              /\ result.previous_balance = result.new_balance
        /\ \A b \in last.balance_before :
              wallets[last.request.wallet_id].balance = b


\* C13: execute_clawback raises WalletNotFoundException when the wallet does
\* not exist, and ValidationException when the wallet exists, the transaction
\* is unknown and force is not set; such a call changes no wallet and stores
\* no clawback record.
C13_RejectedClawbackChangesNothing ==
    [][last'.kind = "execute_clawback" =>
        /\ last'.request.wallet_id \notin DOMAIN wallets
            => /\ last'.raised = "WalletNotFoundException"
               /\ wallets' = wallets
               /\ clawbacks' = clawbacks
        /\ (/\ last'.request.wallet_id \in DOMAIN wallets
            /\ last'.request.transaction_id \notin DOMAIN transactions
            /\ ~last'.request.force)
            => /\ last'.raised = "ValidationException"
               /\ wallets' = wallets
               /\ clawbacks' = clawbacks]_vars

\* an unforced clawback of an unknown transaction was rejected on a wallet
\* that holds money, after another clawback had been recorded
C13_Witness ==
    /\ last.kind = "execute_clawback"
    /\ last.raised = "ValidationException"
    /\ last.request.wallet_id \in DOMAIN wallets
    /\ last.request.transaction_id \notin DOMAIN transactions
    /\ ~last.request.force
    /\ Len(clawbacks) = 1
    /\ wallets[last.request.wallet_id].balance > 0

-----------------------------------------------------------------------------
\* Policy store: what create_policy has to satisfy

\* the schema constraints a rule bundle violates, by the message of each
ViolatedConstraints(rules) ==
    {msg \in {"max_amount must be positive",
              "per_transaction_cap cannot exceed max_amount"} :
        \/ /\ msg = "max_amount must be positive"
           /\ rules.max_amount # {}
           /\ Some(rules.max_amount) <= 0
        \/ /\ msg = "per_transaction_cap cannot exceed max_amount"
           /\ rules.max_amount # {}
           /\ rules.per_transaction_cap # {}
           /\ Some(rules.per_transaction_cap) > Some(rules.max_amount)}

\* C14: create_policy with rules that violate schema constraints raises a
\* validation error whose list holds every violated constraint, and leaves
\* the policy store and the wallets (their attached_policies) as they were.
C14_SchemaErrorsAllListed ==
    [][(/\ last'.kind = "create_policy"
        /\ ViolatedConstraints(last'.policy_data.rules) # {})
        => /\ last'.raised = "ValidationException"
           /\ {last'.errors[k] : k \in 1..Len(last'.errors)}
                = ViolatedConstraints(last'.policy_data.rules)
           /\ store' = store
           /\ wallets' = wallets]_vars

\* a payload violating both constraints and naming an existing wallet was
\* rejected while the store held a policy
C14_Witness ==
    /\ last.kind = "create_policy"
    /\ last.raised = "ValidationException"
    /\ Len(last.errors) = 2
    /\ last.policy_data.wallet_id # {}
    /\ Some(last.policy_data.wallet_id) \in DOMAIN wallets
    /\ Len(store) = 1

-----------------------------------------------------------------------------
\* Wallet Store: debits and credits

\* largest balance a credit may lead to
MaxBalance == 30

\* the positive amounts of the debits and credits
BalanceAmounts == {3, 5, 20}

\* WalletService.update_balance.  The call record keeps, beside what the call
\* raised, its arguments and the balance the wallet had before the call.
UpdateBalance ==
    \E wallet_id \in 1..MaxWallets, amount \in BalanceAmounts,
       operation \in {"debit", "credit"} :
        LET r == update_balance(wallets, wallet_id, amount, operation)
        IN  /\ IF wallet_id \in DOMAIN wallets /\ operation = "credit"
               THEN wallets[wallet_id].balance + amount <= MaxBalance
               ELSE TRUE
            /\ wallets' = r.wallets
            /\ last' = [kind |-> "update_balance", raised |-> r.raised,
                        wallet_id |-> wallet_id, amount |-> amount,
                        operation |-> operation,
                        balance_before |->
                            IF wallet_id \in DOMAIN wallets
                            THEN {wallets[wallet_id].balance} ELSE {}]
            /\ UNCHANGED <<calls, now, valVars, store, transactions, clawbacks>>

NextWallet == CreateWallet \/ UpdateBalance

SpecWallet == InitClawback /\ [][NextWallet]_vars

\* C15: a debit larger than the balance raises InsufficientBalanceException
\* and leaves the balance as it was, and no wallet created with a
\* non-negative balance has a negative balance after debits and credits of
\* positive amounts.
C15_BalanceNeverNegative ==
    /\ \A w \in DOMAIN wallets : wallets[w].balance >= 0
    /\ (/\ last.kind = "update_balance"
        /\ last.operation = "debit"
        /\ \E b \in last.balance_before : last.amount > b)
        => /\ last.raised = "InsufficientBalanceException"
           /\ \A b \in last.balance_before :
                 wallets[last.wallet_id].balance = b

\* a debit of 20 was refused on a wallet that holds less after earlier
\* debits and credits
C15_Witness ==
    /\ last.kind = "update_balance"
    /\ last.operation = "debit"
    /\ last.amount = 20
    /\ last.raised = "InsufficientBalanceException"
    /\ wallets[last.wallet_id].balance = 12

-----------------------------------------------------------------------------
\* Routes: attaching policies and validating on a wallet

\* most entries of the transaction history
MaxHistory == 1

RECURSIVE get_wallet_policies_from(_, _, _, _)
\* the list comprehension of get_wallet_policies from position i on;
\* ticks[i] is the clock read by is_expired of the i-th policy
get_wallet_policies_from(st, wallet_id, ticks, i) ==
    IF i > Len(st) THEN <<>>
    ELSE LET policy == st[i]
             rest == get_wallet_policies_from(st, wallet_id, ticks, i + 1)
         IN  IF /\ InSeq(wallet_id, policy.attached_wallets)
                /\ policy.is_active
                /\ ~is_expired(policy, ticks[i])
             THEN <<policy>> \o rest
             ELSE rest

\* PolicyService.get_wallet_policies
get_wallet_policies(st, wallet_id, ticks) ==
    get_wallet_policies_from(st, wallet_id, ticks, 1)

\* the policy route attach_policy_to_wallet: the wallet's list, then the
\* policy's list; the result is the store and the wallets after the call
policy_attach_route(st, ws, policy_id, wallet_id) ==
    LET k == IndexOf(st, policy_id)
    IN  IF k = 0
        THEN [raised |-> "PolicyNotFoundException", store |-> st, wallets |-> ws]
        ELSE IF wallet_id \notin DOMAIN ws
        THEN [raised |-> "WalletNotFoundException", store |-> st, wallets |-> ws]
        ELSE [raised |-> NoneStr,
              store |->
                IF InSeq(wallet_id, st[k].attached_wallets) THEN st
                ELSE [st EXCEPT ![k].attached_wallets = Append(@, wallet_id)],
              wallets |-> attach_policy(ws, wallet_id, policy_id).wallets]

\* the rule bundles of the policies of this specification
AttachRules ==
    {PolicyRules({}, {}, {5}, {}, {}, {}, {}),
     PolicyRules({}, {}, {}, {}, {}, {}, {1})}

AttachPayloads ==
    {PolicyCreate(<<"A">>, TypeOf(r), r, w, 0) :
        r \in AttachRules, w \in {{}} \cup {{k} : k \in 1..MaxWallets}}

AttachTransactions ==
    {[wallet_id |-> w, amount |-> a, category |-> "education",
      merchant |-> "m1", location |-> NoneStr] :
        w \in 1..MaxWallets, a \in {1, 10}}

\* PolicyService.create_policy on the payloads of this specification
CreatePolicyForWallet ==
    \E policy_data \in AttachPayloads :
        LET r == create_policy(store, wallets, policy_data, Len(store) + 1)
        IN  /\ Len(store) < MaxStore
            /\ store' = r.store
            /\ wallets' = r.wallets
            /\ last' = [kind |-> "create_policy", raised |-> r.raised,
                        policy_id |-> Len(store) + 1]
            /\ UNCHANGED <<calls, now, valVars, transactions, clawbacks>>

\* POST /policy/{policy_id}/attach/{wallet_id}; policy id 0 is the id of no
\* policy
AttachPolicyRoute ==
    \E policy_id \in 0..Len(store), wallet_id \in 1..MaxWallets :
        LET r == policy_attach_route(store, wallets, policy_id, wallet_id)
        IN  /\ store' = r.store
            /\ wallets' = r.wallets
            /\ last' = [kind |-> "policy_attach_route", raised |-> r.raised,
                        policy_id |-> policy_id, wallet_id |-> wallet_id]
            /\ UNCHANGED <<calls, now, valVars, transactions, clawbacks>>

\* POST /wallet/{wallet_id}/attach-policy: wallet_service.attach_policy and
\* nothing else
AttachWalletRoute ==
    \E policy_id \in 0..Len(store), wallet_id \in 1..MaxWallets :
        LET r == attach_policy(wallets, wallet_id, policy_id)
        IN  /\ wallets' = r.wallets
            /\ last' = [kind |-> "wallet_attach_route", raised |-> r.raised,
                        policy_id |-> policy_id, wallet_id |-> wallet_id]
            /\ UNCHANGED <<calls, now, valVars, store, transactions, clawbacks>>

\* ValidationService.get_wallet_history: the entries of the history for the
\* wallet, in the order they were written
get_wallet_history(history, wallet_id) ==
    SelectSeq([k \in 1..Cardinality(DOMAIN history) |-> history[k]],
              LAMBDA e : e.transaction.wallet_id = wallet_id)

\* the dictionaries the route builds from the history entries
real_transactions_of(history_entries) ==
    [k \in 1..Len(history_entries) |->
        [amount |-> history_entries[k].transaction.amount,
         category |-> history_entries[k].transaction.category,
         location |-> IF Falsy(history_entries[k].transaction.location)
                      THEN "IN-DL"
                      ELSE history_entries[k].transaction.location,
         approved |-> history_entries[k].result.status = "APPROVED"]]

\* MLModelService.is_trained after construction: the model files are no part
\* of the repository, _try_load_models finds none
is_trained == FALSE

\* the averages of the two models' predictions over the transactions, in
\* thousandths, when the models are loaded
MLPredictions == {<<0, 50>>, <<1000, 950>>}

Min(a, b) == IF a <= b THEN a ELSE b

Max(a, b) == IF a >= b THEN a ELSE b

RECURSIVE count_approved(_)
count_approved(txns) ==
    IF txns = <<>> THEN 0
    ELSE (IF Head(txns).approved THEN 1 ELSE 0)
         + count_approved(Tail(txns))

RECURSIVE sum_of(_, _)
sum_of(txns, squared) ==
    IF txns = <<>> THEN 0
    ELSE (IF squared THEN Head(txns).amount * Head(txns).amount
          ELSE Head(txns).amount)
         + sum_of(Tail(txns), squared)

RECURSIVE isqrt_from(_, _)
isqrt_from(v, r) == IF (r + 1) * (r + 1) > v THEN r ELSE isqrt_from(v, r + 1)

\* ComplianceMLService._calculate_policy_adherence, in thousandths
calculate_policy_adherence(txns) ==
    IF txns = <<>> THEN 1000
    ELSE LET recent == SubSeq(txns, 1, Min(10, Len(txns)))
             approval_rate == (count_approved(txns) * 1000)
                                  \div Len(txns)
             recent_rate == (count_approved(recent) * 1000) \div Len(recent)
         IN  Min((approval_rate * 6 + recent_rate * 4) \div 10, 1000)

\* ComplianceMLService._analyze_time_patterns, in thousandths: the route
\* stamps every dictionary with the clock of the request, so the gaps
\* between them are below one hour
analyze_time_patterns(txns) ==
    IF Len(txns) < 5 THEN 500 ELSE 600

\* ComplianceMLService._calculate_pattern_score, in thousandths; the
\* coefficient of variation is std_dev / avg_amt in hundredths
calculate_pattern_score(txns) ==
    IF Len(txns) < 3 THEN 500
    ELSE LET n == Len(txns)
             total == sum_of(txns, FALSE)
             cv == IF total > 0
                   THEN isqrt_from((n * sum_of(txns, TRUE) - total * total)
                                       * 10000, 0) \div total
                   ELSE 0
             amount_score == Max(0, 1000 - (cv * 10) \div 2)
             categories == {txns[k].category : k \in 1..n}
             category_score == Min((Cardinality(categories) * 1000) \div 5, 1000)
             time_score == analyze_time_patterns(txns)
         IN  Min((amount_score * 4 + category_score * 3 + time_score * 3) \div 10,
                 1000)

\* ComplianceMLService._calculate_risk_score, in thousandths; every
\* dictionary carries the clock of the request, so all are of the last day
calculate_risk_score(txns) ==
    IF txns = <<>> THEN 0
    ELSE LET n == Len(txns)
             high_value_count ==
                 Cardinality({k \in 1..n : txns[k].amount > 10000})
             rejection_count == n - count_approved(txns)
             locations == {txns[k].location : k \in 1..n}
         IN  Min((((high_value_count * 1000) \div n) * 5) \div 10
                 + (((rejection_count * 1000) \div n) * 8) \div 10
                 + (IF n > 10 THEN 300 ELSE 0)
                 + (IF Cardinality(locations) > 5 THEN 200 ELSE 0),
                 1000)

\* round(x, 2) of a score in thousandths, in hundredths
round2(x) == (x + 5) \div 10

\* ComplianceMLService._score_with_heuristics: the compliance_score of the
\* result, in hundredths
score_with_heuristics(txns) ==
    round2((calculate_policy_adherence(txns) * 5
            + calculate_pattern_score(txns) * 3
            + (1000 - calculate_risk_score(txns)) * 2) \div 10)

\* ComplianceMLService._score_with_ml: the compliance_score of the result,
\* in hundredths; predictions are the averages of the models' scores
score_with_ml(txns, predictions) ==
    round2(Max((calculate_policy_adherence(txns) * 45
                + calculate_pattern_score(txns) * 25
                + (1000 - predictions[1]) * 20
                + (1000 - predictions[2]) * 10) \div 100, 0))

\* ComplianceMLService.compute_compliance_score with the transactions given
compute_compliance_score(recent_transactions, predictions) ==
    IF is_trained THEN score_with_ml(recent_transactions, predictions)
    ELSE score_with_heuristics(recent_transactions)

\* step 5 of the route: the wallet object of the lookup gets the score of
\* the wallet's history, when the history has an entry for it
update_compliance_score(ws, history, wallet_id, predictions) ==
    LET real_transactions ==
            real_transactions_of(get_wallet_history(history, wallet_id))
    IN  IF real_transactions = <<>> THEN ws
        ELSE [ws EXCEPT ![wallet_id].compliance_score =
                  compute_compliance_score(real_transactions, predictions)]

\* the route function validate_transaction: the wallet lookup,
\* get_wallet_policies, the new Transaction, the validation with its write
\* to the history, and the compliance score it then stores on the wallet; a
\* validation that raises ends the route before that.  kind names the route
\* that was called.
TransactionRoute(kind) ==
    \E transaction_data \in AttachTransactions :
      \E reads \in Nondecreasing(Len(store), now) :
        LET wallet_id == transaction_data.wallet_id
            active_policies == get_wallet_policies(store, wallet_id, reads)
            n == Len(active_policies)
            t0 == IF reads = <<>> THEN now ELSE reads[Len(reads)]
            transaction == Transaction(Cardinality(DOMAIN transaction_history) + 1,
                                       wallet_id, transaction_data.amount,
                                       transaction_data.category,
                                       transaction_data.merchant,
                                       transaction_data.location)
        IN  IF wallet_id \notin DOMAIN wallets
            THEN /\ last' = [kind |-> kind,
                             raised |-> "WalletNotFoundException",
                             wallet_id |-> wallet_id, policies_evaluated |-> <<>>,
                             t_first |-> now, t_last |-> now]
                 /\ UNCHANGED <<calls, now, valVars, storeVars>>
            ELSE \E ticks \in ClockReadings(n, t0) :
                    LET out == validate_transaction(transaction, active_policies, ticks)
                    IN  /\ Cardinality(DOMAIN transaction_history) < MaxHistory
                        /\ now' = IF n = 0 THEN t0 ELSE ticks[2 * n]
                        /\ last' = [kind |-> kind, raised |-> out.raised,
                                    wallet_id |-> wallet_id,
                                    policies_evaluated |-> out.policies_evaluated,
                                    t_first |-> now,
                                    t_last |-> IF n = 0 THEN t0 ELSE ticks[2 * n]]
                        /\ transaction_history' =
                              IF out.result = {} THEN transaction_history
                              ELSE (transaction.transaction_id :>
                                        [transaction |-> transaction,
                                         result |-> Some(out.result)])
                                   @@ transaction_history
                        /\ \E predictions \in IF is_trained THEN MLPredictions
                                               ELSE {<<0, 0>>} :
                              wallets' =
                                IF out.result = {} THEN wallets
                                ELSE update_compliance_score(
                                         wallets, transaction_history',
                                         wallet_id, predictions)
                        /\ UNCHANGED <<calls, tx, policies, prev, store,
                                       transactions, clawbacks>>

\* POST /transaction/validate
ValidateRoute == TransactionRoute("validate_route")

NextAttach ==
    \/ CreateWallet
    \/ CreatePolicyForWallet
    \/ UpdatePolicy
    \/ AttachPolicyRoute
    \/ AttachWalletRoute
    \/ ValidateRoute

SpecAttach == InitPolicy /\ [][NextAttach]_vars

\* a validation that found its wallet has run
ValidatedOnWalletHere ==
    last.kind = "validate_route" /\ last.raised # "WalletNotFoundException"

\* policy k is attached to wallet w: w is in the policy's list or k is in the
\* wallet's list
AttachedTo(k, w) ==
    \/ InSeq(w, store[k].attached_wallets)
    \/ InSeq(k, wallets[w].attached_policies)

\* C16: a validation on wallet W evaluates every policy attached to W that is
\* active and not expired up to the end of the call, whichever way it was
\* attached, and evaluates no policy that is not attached to W, not active or
\* expired when the call began.
C16_EvaluatesExactlyTheAttachedPolicies ==
    ValidatedOnWalletHere =>
        \A k \in 1..Len(store) :
            /\ (/\ AttachedTo(k, last.wallet_id)
                /\ store[k].is_active
                /\ ~is_expired(store[k], last.t_last))
                => InSeq(k, last.policies_evaluated)
            /\ InSeq(k, last.policies_evaluated)
                => /\ AttachedTo(k, last.wallet_id)
                   /\ store[k].is_active
                   /\ ~is_expired(store[k], last.t_first)

-----------------------------------------------------------------------------
\* Routes: simulating a transaction

\* POST /transaction/simulate: return await validate_transaction(transaction_data)
SimulateRoute == TransactionRoute("simulate_route")

NextSimulate ==
    \/ CreateWallet
    \/ CreatePolicyForWallet
    \/ ValidateRoute
    \/ SimulateRoute

SpecSimulate == InitPolicy /\ [][NextSimulate]_vars

\* C17: a simulate call leaves the transaction history as it was: the same
\* ids with the same entries.
C17_SimulateRecordsNothing ==
    [][last'.kind = "simulate_route" => transaction_history' = transaction_history]_vars

-----------------------------------------------------------------------------
\* The Explanation Generator's contract

\* C18: every validation renders an explanation: the approved template for a
\* result whose status is APPROVED, and the blocked template with one item
\* per violation for a result whose status is BLOCKED.
C18_TemplateFollowsTheStatus ==
    ValidatedHere =>
        /\ last.raised = NoneStr
        /\ \A r \in last.result :
            /\ r.status = "APPROVED" => r.explanation.template = "approved"
            /\ r.status = "BLOCKED" =>
                  /\ r.explanation.template = "blocked"
                  /\ r.explanation.items = Len(r.violations)

-----------------------------------------------------------------------------
\* A session: validations and clawbacks

NextSession == CreateWallet \/ ValidateRoute \/ ExecuteClawback

SpecSession == InitPolicy /\ [][NextSession]_vars

\* a clawback without the force flag has just been asked for a transaction
\* of the validation history, on the wallet of that transaction
ClawbackOfValidatedHere ==
    /\ last.kind = "execute_clawback"
    /\ ~last.request.force
    /\ last.request.transaction_id \in DOMAIN transaction_history
    /\ last.request.wallet_id
          = transaction_history[last.request.transaction_id].transaction.wallet_id

\* C19: a clawback without force of a validated transaction does not fail as
\* unknown: it is EXECUTED and reverses the amount of that transaction.
C19_ValidatedTransactionCanBeClawedBack ==
    ClawbackOfValidatedHere =>
        /\ last.raised = NoneStr
        /\ \A result \in last.result :
              /\ result.status = "EXECUTED"
              /\ result.amount_reversed
                    = transaction_history[last.request.transaction_id].transaction.amount

-----------------------------------------------------------------------------
\* Clawback Engine: execute_clawback coroutines on one event loop

\* most execute_clawback calls in flight or finished
MaxCalls == 2

\* faulty variant: update_balance gives the event loop away before its body
suspends_at_update_balance(point) == point = "update_balance"

\* faulty variant: _detect_conflicts gives the event loop away before its body
suspends_at_detect_conflicts(point) == point = "detect_conflicts"

\* whether the coroutine awaited at this point of execute_clawback or of
\* detect_all_conflicts gives the event loop away before its body runs.
\* get_wallet has no await, update_balance awaits get_wallet only,
\* _detect_conflicts has no await, and the log_execution_time wrapper awaits
\* the wrapped function only: none of the awaits suspends.
suspends(point) == FALSE

\* an execute_clawback coroutine before its first step; concurrent_with, the
\* calls that had not finished when this one was made, is bookkeeping the
\* program never reads
Call(clawback_request, concurrent_with) ==
    [pc |-> "start", suspended |-> FALSE, request |-> clawback_request,
     raised |-> NoneStr, previous_balance |-> {}, amount_to_reverse |-> {},
     result |-> {}, concurrent_with |-> concurrent_with]

\* the coroutine is between two awaits: the event loop runs nothing else
holds_loop(c) == calls[c].pc \notin {"start", "done"} /\ ~calls[c].suspended

\* the event loop may run the next segment of coroutine c
may_run(c) ==
    /\ calls[c].pc # "done"
    /\ \A d \in DOMAIN calls \ {c} : ~holds_loop(d)

\* the requests of the coroutines; wallet 2 is the id of no wallet
ConcurrentRequests ==
    {ClawbackRequest(id, w, "POLICY_VIOLATION", f) :
        id \in TransactionIds, w \in {1, 2}, f \in BOOLEAN}

\* the tables of registered transactions the coroutines may find
RegisteredTables ==
    {<<>>} \cup {register_transaction(<<>>, t) : t \in ClawbackTransactions}
           \cup {register_transaction(register_transaction(<<>>, t), u) :
                    t, u \in ClawbackTransactions}

\* wallet 1 has just been created, after the registration of some transactions
InitConcurrent ==
    /\ tx = Transaction(1, 1, 1, "education", NoneStr, NoneStr)
    /\ policies = <<>>
    /\ now = 0
    /\ prev = NoCall
    /\ transaction_history = <<>>
    /\ store = <<>>
    /\ transactions \in RegisteredTables
    /\ clawbacks = <<>>
    /\ calls = <<>>
    /\ \E initial_balance \in InitialBalances :
          /\ wallets = <<Wallet(1, initial_balance)>>
          /\ last = [kind |-> "create_wallet", raised |-> NoneStr,
                     wallet_id |-> 1, initial_balance |-> initial_balance]

\* a request reaches the clawback route: a new coroutine
CallExecuteClawback ==
    \E clawback_request \in ConcurrentRequests :
        /\ Len(calls) < MaxCalls
        /\ calls' = Append(calls,
                        Call(clawback_request,
                             {d \in DOMAIN calls : calls[d].pc # "done"}))
        /\ UNCHANGED <<tx, policies, now, last, prev, transaction_history, storeVars>>

\* execute_clawback from its entry to the await of get_wallet
EnterClawback ==
    \E c \in DOMAIN calls :
        /\ may_run(c)
        /\ calls[c].pc = "start"
        /\ calls' = [calls EXCEPT ![c].pc = "get_wallet",
                                  ![c].suspended = suspends("get_wallet")]
        /\ UNCHANGED <<tx, policies, now, last, prev, transaction_history, storeVars>>

\* get_wallet, the lookup of the transaction and the reading of
\* previous_balance, up to the await of update_balance
LookUpClawback ==
    \E c \in DOMAIN calls :
        LET clawback_request == calls[c].request
            known == clawback_request.transaction_id \in DOMAIN transactions
            amount_to_reverse ==
                IF known THEN transactions[clawback_request.transaction_id].amount
                ELSE MockAmount
        IN  /\ may_run(c)
            /\ calls[c].pc = "get_wallet"
            /\ calls' =
                 IF clawback_request.wallet_id \notin DOMAIN wallets
                 THEN [calls EXCEPT ![c].pc = "done", ![c].suspended = FALSE,
                                    ![c].raised = "WalletNotFoundException"]
                 ELSE IF transaction_rejected(transactions, clawback_request)
                 THEN [calls EXCEPT ![c].pc = "done", ![c].suspended = FALSE,
                                    ![c].raised = "ValidationException"]
                 ELSE [calls EXCEPT
                         ![c].pc = "update_balance",
                         ![c].suspended = suspends("update_balance"),
                         ![c].amount_to_reverse = {amount_to_reverse},
                         ![c].previous_balance =
                             {wallets[clawback_request.wallet_id].balance}]
            /\ UNCHANGED <<tx, policies, now, last, prev, transaction_history, storeVars>>

\* update_balance(wallet_id, amount_to_reverse, "credit"), up to the await of
\* the second get_wallet
CreditClawback ==
    \E c \in DOMAIN calls :
        LET clawback_request == calls[c].request
            credit == update_balance(wallets, clawback_request.wallet_id,
                                     Some(calls[c].amount_to_reverse), "credit")
        IN  /\ may_run(c)
            /\ calls[c].pc = "update_balance"
            /\ wallets' = credit.wallets
            /\ calls' = [calls EXCEPT
                            ![c].pc = "get_wallet_again",
                            ![c].suspended = suspends("get_wallet_again"),
                            ![c].raised = credit.raised]
            /\ UNCHANGED <<tx, policies, now, last, prev, transaction_history,
                           store, transactions, clawbacks>>

\* the second get_wallet and the rest of execute_clawback: new_balance, the
\* clawback record and the result
FinishClawback ==
    \E c \in DOMAIN calls :
        LET clawback_request == calls[c].request
            known == clawback_request.transaction_id \in DOMAIN transactions
            credited == calls[c].raised = NoneStr
            amount_to_reverse == Some(calls[c].amount_to_reverse)
            previous_balance == Some(calls[c].previous_balance)
            status == IF credited THEN "EXECUTED" ELSE "FAILED"
            new_balance == IF credited
                           THEN wallets[clawback_request.wallet_id].balance
                           ELSE previous_balance
            explanation ==
                IF credited
                THEN generate_clawback_explanation(clawback_request.reason,
                                                   amount_to_reverse, status)
                ELSE [template |-> "Clawback failed", reason |-> calls[c].raised,
                      amount |-> {}]
            clawback_record ==
                [clawback_id |-> Len(clawbacks) + 1,
                 transaction_id |-> clawback_request.transaction_id,
                 wallet_id |-> clawback_request.wallet_id,
                 amount |-> amount_to_reverse,
                 reason |-> clawback_request.reason,
                 status |-> status,
                 explanation |-> explanation]
        IN  /\ may_run(c)
            /\ calls[c].pc = "get_wallet_again"
            /\ clawbacks' = record_clawback(clawbacks, clawback_record)
            /\ calls' = [calls EXCEPT
                    ![c].pc = "done", ![c].suspended = FALSE,
                    ![c].raised = NoneStr,
                    ![c].result =
                        {[clawback_id |-> clawback_record.clawback_id,
                          transaction_id |-> clawback_request.transaction_id,
                          wallet_id |-> clawback_request.wallet_id,
                          status |-> status,
                          reason |-> clawback_request.reason,
                          amount_reversed |-> amount_to_reverse,
                          previous_balance |-> previous_balance,
                          new_balance |-> new_balance,
                          explanation |-> explanation,
                          violations |->
                              IF known THEN <<>>
                              ELSE <<"Transaction not found in system">>]}]
            /\ UNCHANGED <<tx, policies, now, last, prev, transaction_history,
                           store, wallets, transactions>>

NextConcurrent ==
    \/ CallExecuteClawback
    \/ EnterClawback
    \/ LookUpClawback
    \/ CreditClawback
    \/ FinishClawback

SpecConcurrent == InitConcurrent /\ [][NextConcurrent]_vars

RECURSIVE ReversedOn(_, _)
\* the sum of amount_reversed of the EXECUTED results of calls 1..n on
\* wallet w
ReversedOn(w, n) ==
    IF n = 0 THEN 0
    ELSE ReversedOn(w, n - 1)
         + (IF \E r \in calls[n].result :
                    r.status = "EXECUTED" /\ r.wallet_id = w
            THEN Some(calls[n].result).amount_reversed
            ELSE 0)

AllCallsDone == \A c \in DOMAIN calls : calls[c].pc = "done"

\* C20: every EXECUTED result of the execute_clawback calls, concurrent or
\* not, reports new_balance = previous_balance + amount_reversed, and once
\* all calls have finished the wallet holds its initial balance plus the sum
\* of the reversed amounts.
C20_ConcurrentClawbacksAreSerialized ==
    /\ \A c \in DOMAIN calls : \A r \in calls[c].result :
          r.status = "EXECUTED"
            => r.new_balance = r.previous_balance + r.amount_reversed
    /\ AllCallsDone
          => wallets[1].balance = last.initial_balance + ReversedOn(1, Len(calls))

\* two calls on wallet 1, the second made before the first had finished,
\* have both been EXECUTED
C20_Witness ==
    /\ Len(calls) >= 2
    /\ calls[2].concurrent_with = {1}
    /\ \A c \in {1, 2} :
          /\ calls[c].request.wallet_id = 1
          /\ \E r \in calls[c].result : r.status = "EXECUTED"

-----------------------------------------------------------------------------
\* Conflict Analyzer: detect_all_conflicts coroutines beside store mutations

\* most policies of the store the passes analyze
MaxAnalyzed == 3

\* PolicyService.delete_policy
delete_policy(st, policy_id) ==
    LET k == IndexOf(st, policy_id)
    IN  IF k = 0
        THEN [raised |-> "PolicyNotFoundException", store |-> st]
        ELSE [raised |-> NoneStr,
              store |-> SubSeq(st, 1, k - 1) \o SubSeq(st, k + 1, Len(st))]

\* the dictionary detect_all_conflicts returns for the entries it collected
conflict_report(all_conflicts) ==
    [total_conflicts |-> Len(all_conflicts),
     conflicts |-> all_conflicts,
     has_critical_conflicts |->
        \E k \in 1..Len(all_conflicts) : all_conflicts[k].severity = "CRITICAL"]

\* a detect_all_conflicts coroutine before its first step.  policy_list is
\* the list the pass took of the policy objects, (i, j) the pair whose
\* _detect_conflicts call comes next.  Bookkeeping the program never reads:
\* overtaken, whether the store changed between the call and the first step;
\* stores_seen, the stores there have been while the pass ran.
Pass ==
    [pc |-> "start", suspended |-> FALSE, policy_list |-> <<>>, i |-> 0, j |-> 0,
     all_conflicts |-> <<>>, overtaken |-> FALSE, stores_seen |-> {}]

RECURSIVE next_pair(_, _, _, _)
\* the two nested loops of detect_all_conflicts from (i, j) to the next
\* await of _detect_conflicts: the pair it is reached with, <<0, 0>> when the
\* loops end.  The outer loop tests policy_a when it enters row i, the inner
\* loop tests policy_b at every j.
next_pair(policy_list, i, j, entering) ==
    IF i > Len(policy_list) THEN <<0, 0>>
    ELSE IF entering /\ ~policy_list[i].is_active
    THEN next_pair(policy_list, i + 1, i + 2, TRUE)
    ELSE IF j > Len(policy_list)
    THEN next_pair(policy_list, i + 1, i + 2, TRUE)
    ELSE IF ~policy_list[j].is_active
    THEN next_pair(policy_list, i, j + 1, FALSE)
    ELSE <<i, j>>

\* the pass after a segment that ends at the await for pair
pass_at(pass, pair, all_conflicts) ==
    [pass EXCEPT !.pc = "detect_conflicts",
                 !.suspended = suspends("detect_conflicts"),
                 !.i = pair[1], !.j = pair[2],
                 !.all_conflicts = all_conflicts]

\* the coroutines without the c-th, which has returned
without(cs, c) == SubSeq(cs, 1, c - 1) \o SubSeq(cs, c + 1, Len(cs))

\* the call record of a pass that returns the report of all_conflicts
returned(pass, all_conflicts) ==
    [kind |-> "detect_all_conflicts", raised |-> NoneStr,
     report |-> conflict_report(all_conflicts),
     overtaken |-> pass.overtaken, stores_seen |-> pass.stores_seen]

\* the ids of the policies of a list
PolicyIds(st) == {st[k].policy_id : k \in 1..Len(st)}

\* uuid4(): an id that no policy the program still holds has
fresh_policy_id(st, cs) ==
    LET used == PolicyIds(st)
                \cup UNION {PolicyIds(cs[c].policy_list) : c \in DOMAIN cs}
    IN  CHOOSE k \in 1..(Cardinality(used) + 1) :
            k \notin used /\ \A m \in 1..(k - 1) : m \in used

\* the coroutines after the store became st: a pass that has taken its list
\* holds the policy objects themselves, so it sees what update_policy wrote
\* to them
coroutines_after(cs, st) ==
    [c \in DOMAIN cs |->
        IF cs[c].pc = "start" THEN [cs[c] EXCEPT !.overtaken = TRUE]
        ELSE [cs[c] EXCEPT
                !.stores_seen = @ \cup {st},
                !.policy_list =
                    [k \in DOMAIN @ |->
                        IF IndexOf(st, @[k].policy_id) # 0
                        THEN st[IndexOf(st, @[k].policy_id)]
                        ELSE @[k]]]]

\* no coroutine is between two awaits
loop_free == \A d \in DOMAIN calls : ~holds_loop(d)

\* two policies that conflict by rule 1
AnalyzedPayloads ==
    {PolicyCreate(<<"A">>, "category_restriction",
                  PolicyRules({"education"}, {}, {}, {}, {}, {}, {}), {}, 0),
     PolicyCreate(<<"B">>, "category_restriction",
                  PolicyRules({"food"}, {}, {}, {}, {}, {}, {}), {}, 0)}

\* a request reaches the conflicts route: a new coroutine
CallDetectAllConflicts ==
    /\ Len(calls) < MaxCalls
    /\ calls' = Append(calls, Pass)
    /\ UNCHANGED <<tx, policies, now, last, prev, transaction_history, storeVars>>

\* detect_all_conflicts from its entry to its first await of
\* _detect_conflicts, or to its return when no pair is analyzed
EnterDetectAllConflicts ==
    \E c \in DOMAIN calls :
        LET pass == [calls[c] EXCEPT !.policy_list = store,
                                     !.stores_seen = {store}]
            pair == next_pair(store, 1, 2, TRUE)
        IN  /\ may_run(c)
            /\ calls[c].pc = "start"
            /\ IF pair = <<0, 0>>
               THEN /\ calls' = without(calls, c)
                    /\ last' = returned(pass, <<>>)
               ELSE /\ calls' = [calls EXCEPT ![c] = pass_at(pass, pair, <<>>)]
                    /\ UNCHANGED last
            /\ UNCHANGED <<tx, policies, now, prev, transaction_history, storeVars>>

\* _detect_conflicts(policy_a) on the store as it is now, the entries for
\* policy_b, and the loops up to the next await or the return
RunDetectConflicts ==
    \E c \in DOMAIN calls :
        LET pass == calls[c]
            all_conflicts ==
                pass.all_conflicts
                \o conflict_entries(pass.policy_list[pass.i],
                                    pass.policy_list[pass.j], store)
            pair == next_pair(pass.policy_list, pass.i, pass.j + 1, FALSE)
        IN  /\ may_run(c)
            /\ pass.pc = "detect_conflicts"
            /\ IF pair = <<0, 0>>
               THEN /\ calls' = without(calls, c)
                    /\ last' = returned(pass, all_conflicts)
               ELSE /\ calls' = [calls EXCEPT
                                    ![c] = pass_at(pass, pair, all_conflicts)]
                    /\ UNCHANGED last
            /\ UNCHANGED <<tx, policies, now, prev, transaction_history, storeVars>>

\* PolicyService.create_policy while passes may be in flight; its write to
\* the store comes before its first await that suspends
CreatePolicyMeanwhile ==
    \E policy_data \in AnalyzedPayloads :
        LET id == fresh_policy_id(store, calls)
            r == create_policy(store, wallets, policy_data, id)
        IN  /\ loop_free
            /\ Len(store) < MaxAnalyzed
            /\ store' = r.store
            /\ calls' = coroutines_after(calls, r.store)
            /\ last' = [kind |-> "create_policy", raised |-> r.raised]
            /\ UNCHANGED <<tx, policies, now, prev, transaction_history,
                           wallets, transactions, clawbacks>>

\* PolicyService.update_policy while passes may be in flight; policy id 0 is
\* the id of no policy
UpdatePolicyMeanwhile ==
    \E policy_id \in {0} \cup PolicyIds(store), updates \in PolicyUpdates :
        LET r == update_policy(store, policy_id, updates)
        IN  /\ loop_free
            /\ store' = r.store
            /\ calls' = coroutines_after(calls, r.store)
            /\ last' = [kind |-> "update_policy", raised |-> r.raised]
            /\ UNCHANGED <<tx, policies, now, prev, transaction_history,
                           wallets, transactions, clawbacks>>

\* PolicyService.delete_policy while passes may be in flight
DeletePolicyMeanwhile ==
    \E policy_id \in {0} \cup PolicyIds(store) :
        LET r == delete_policy(store, policy_id)
        IN  /\ loop_free
            /\ store' = r.store
            /\ calls' = coroutines_after(calls, r.store)
            /\ last' = [kind |-> "delete_policy", raised |-> r.raised]
            /\ UNCHANGED <<tx, policies, now, prev, transaction_history,
                           wallets, transactions, clawbacks>>

NextAnalyzer ==
    \/ CallDetectAllConflicts
    \/ EnterDetectAllConflicts
    \/ RunDetectConflicts
    \/ CreatePolicyMeanwhile
    \/ UpdatePolicyMeanwhile
    \/ DeletePolicyMeanwhile

SpecAnalyzer == InitPolicy /\ [][NextAnalyzer]_vars

\* C21: the report a detect_all_conflicts pass returns is the report of the
\* policy collection as it was at one instant of the pass, whatever
\* create_policy, update_policy and delete_policy did meanwhile.
C21_ReportOfOneInstant ==
    last.kind = "detect_all_conflicts"
        => \E st \in last.stores_seen : last.report = detect_all_conflicts(st)

\* a pass that was called, saw the store change before it ran, and reported
\* conflicts among three active policies
C21_Witness ==
    /\ last.kind = "detect_all_conflicts"
    /\ last.overtaken
    /\ last.report.total_conflicts >= 2
    /\ Len(store) = 3
    /\ \A k \in 1..3 : store[k].is_active
-----------------------------------------------------------------------------
\* Policy store: create, update and delete

\* the rule bundles of the payloads and of the updates; the third and the
\* fourth fail the schema validation
StoredRules ==
    {PolicyRules({}, {20}, {}, {}, {}, {}, {}),
     PolicyRules({}, {20}, {5}, {}, {}, {}, {}),
     PolicyRules({}, {1}, {5}, {}, {}, {}, {}),
     PolicyRules({}, {0}, {}, {}, {}, {}, {}),
     PolicyRules({}, {}, {}, {}, {}, {}, {1}),
     PolicyRules({}, {}, {}, {}, {}, {}, {2}),
     PolicyRules({}, {}, {}, {}, {}, {}, {})}

StoredPayloads ==
    {PolicyCreate(<<"A">>, TypeOf(r), r, {}, 0) : r \in StoredRules}

\* PolicyUpdate payloads as the dictionary update_policy takes: new rules, or
\* a new is_active
StoredUpdates ==
    {[rules |-> {r}] : r \in StoredRules}
    \cup {[is_active |-> {b}] : b \in BOOLEAN}

\* PolicyService.create_policy with a new policy id
CreateStored ==
    \E policy_data \in StoredPayloads :
        LET r == create_policy(store, wallets, policy_data,
                               fresh_policy_id(store, calls))
        IN  /\ Len(store) < MaxStore
            /\ store' = r.store
            /\ last' = [kind |-> "create_policy", raised |-> r.raised]
            /\ UNCHANGED <<tx, policies, now, prev, transaction_history,
                           wallets, transactions, clawbacks, calls>>

\* PolicyService.update_policy; policy id 0 is the id of no policy
UpdateStored ==
    \E policy_id \in {0} \cup PolicyIds(store), updates \in StoredUpdates :
        LET r == update_policy(store, policy_id, updates)
        IN  /\ store' = r.store
            /\ last' = [kind |-> "update_policy", raised |-> r.raised]
            /\ UNCHANGED <<tx, policies, now, prev, transaction_history,
                           wallets, transactions, clawbacks, calls>>

\* PolicyService.delete_policy
DeleteStored ==
    \E policy_id \in {0} \cup PolicyIds(store) :
        LET r == delete_policy(store, policy_id)
        IN  /\ store' = r.store
            /\ last' = [kind |-> "delete_policy", raised |-> r.raised]
            /\ UNCHANGED <<tx, policies, now, prev, transaction_history,
                           wallets, transactions, clawbacks, calls>>

NextStore == CreateStored \/ UpdateStored \/ DeleteStored

SpecStore == InitPolicy /\ [][NextStore]_vars

\* C22: every policy of the store has per_transaction_cap <= max_amount when
\* both are set, and max_amount > 0 when it is set.
C22_StoredLimitsAreConsistent ==
    \A k \in 1..Len(store) :
        LET rules == store[k].rules
        IN  /\ (rules.per_transaction_cap # {} /\ rules.max_amount # {})
                 => Some(rules.per_transaction_cap) <= Some(rules.max_amount)
            /\ rules.max_amount # {} => Some(rules.max_amount) > 0


\* C28: the policy-level expiry of every policy of the store, which the
\* validation reads, equals the expiry of its rule bundle, which the conflict
\* detection reads.
C28_ExpiriesAgree ==
    \A k \in 1..Len(store) : store[k].expires_at = store[k].rules.expiry

-----------------------------------------------------------------------------
\* Conflict Analyzer: severities and policy names

\* the names of the payloads; the last one is a word the severity looks for
SeverityNames == {<<"A">>, <<"B">>, <<"impossible">>}

\* rule bundles that conflict by rule 6 (expiries half a day apart) and by
\* rule 2 (limits 1 and 20)
SeverityRules ==
    {PolicyRules({}, {}, {}, {}, {}, {}, {1}),
     PolicyRules({}, {}, {}, {}, {}, {}, {2}),
     PolicyRules({}, {1}, {}, {}, {}, {}, {}),
     PolicyRules({}, {20}, {}, {}, {}, {}, {})}

SeverityPayloads ==
    {PolicyCreate(n, TypeOf(r), r, {}, 0) : n \in SeverityNames, r \in SeverityRules}

\* PolicyService.create_policy on the payloads of this specification
CreateNamed ==
    \E policy_data \in SeverityPayloads :
        LET r == create_policy(store, wallets, policy_data, Len(store) + 1)
        IN  /\ Len(store) < MaxStore
            /\ store' = r.store
            /\ last' = [kind |-> "create_policy", raised |-> r.raised]
            /\ UNCHANGED <<tx, policies, now, prev, transaction_history,
                           wallets, transactions, clawbacks, calls>>

NextSeverity == CreateNamed \/ UpdatePolicy \/ DetectAllConflicts

SpecSeverity == InitPolicy /\ [][NextSeverity]_vars

\* the store with other names for its policies: names[k] for the k-th
Renamed(st, names) == [k \in 1..Len(st) |-> [st[k] EXCEPT !.name = names[k]]]

\* C23: the severity of a conflict entry does not depend on the policy names:
\* an entry for the same two policies and the same rule in the report of the
\* store with any other names has the same severity.
C23_SeverityIndependentOfNames ==
    DetectedHere =>
        \A names \in [1..Len(store) -> SeverityNames] :
            LET other == detect_all_conflicts(Renamed(store, names))
            IN  \A k \in 1..Len(last.report.conflicts),
                   m \in 1..Len(other.conflicts) :
                    LET e == last.report.conflicts[k]
                        o == other.conflicts[m]
                    IN  (/\ e.policy_a = o.policy_a
                         /\ e.policy_b = o.policy_b
                         /\ e.rule = o.rule)
                            => e.severity = o.severity

-----------------------------------------------------------------------------
\* Conflict Analyzer: the entries of a report

\* C24: a conflict report has one entry per unordered pair of policies and
\* fired rule, an entry names policy_a and policy_b only if the rule fired
\* between these two, also when policies share a name, and total_conflicts
\* is the number of entries.
C24_OneEntryPerPairAndRule ==
    DetectedHere =>
        /\ OncePerRule(last.report)
        /\ \A k \in 1..Len(last.report.conflicts) :
              last.report.conflicts[k].existing = last.report.conflicts[k].policy_b
        /\ last.report.total_conflicts = Len(last.report.conflicts)

-----------------------------------------------------------------------------
\* Clawback Engine: the clawback log

\* C25: every step keeps the records there are, unchanged and in place; an
\* execute_clawback call that passes the wallet and transaction checks adds
\* exactly one record, the one of its request, and no other step adds any:
\* the log has as many records as there were such calls.
C25_ClawbackLogIsAppendOnly ==
    [][/\ Len(clawbacks') >= Len(clawbacks)
       /\ SubSeq(clawbacks', 1, Len(clawbacks)) = clawbacks
       /\ IF last'.kind = "execute_clawback" /\ last'.raised = NoneStr
          THEN /\ Len(clawbacks') = Len(clawbacks) + 1
               /\ clawbacks'[Len(clawbacks')].transaction_id
                     = last'.request.transaction_id
               /\ clawbacks'[Len(clawbacks')].wallet_id = last'.request.wallet_id
               /\ \A result \in last'.result :
                     /\ clawbacks'[Len(clawbacks')].clawback_id = result.clawback_id
                     /\ clawbacks'[Len(clawbacks')].status = result.status
          ELSE clawbacks' = clawbacks]_vars

\* a second clawback of a transaction has been recorded, once EXECUTED and
\* once FAILED, and both records are in the log
C25_Witness ==
    /\ last.kind = "execute_clawback"
    /\ last.raised = NoneStr
    /\ Len(clawbacks) = 2
    /\ clawbacks[1].transaction_id = clawbacks[2].transaction_id
    /\ {clawbacks[1].status, clawbacks[2].status} = {"EXECUTED", "FAILED"}

-----------------------------------------------------------------------------
\* The Orchestrator's contract: evaluated means rule-checked

\* C26: every policy whose id a validate call records in policies_evaluated
\* is rule-checked in that call: if the transaction fails one of its checks,
\* the violations hold an entry for it, also when its expiry instant passes
\* between the loop's test and the test of _evaluate_policy.
C26_EvaluatedPoliciesAreRuleChecked ==
    ValidatedHere =>
        \A i \in 1..Len(last.policies_evaluated) :
            LET k == last.policies_evaluated[i]
            IN  FailingChecks(tx, policies[k]) # {}
                    => \E m \in 1..Len(last.violations) :
                          IdOfViolation(last.violations[m]) = k

-----------------------------------------------------------------------------
\* Validation and the wallet

\* C27: a validate request changes no wallet: the wallets after it, with
\* their balance, compliance_score and attached_policies, are the wallets
\* before it.
C27_ValidateLeavesTheWalletsAlone ==
    [][ValidateRoute => wallets' = wallets]_vars

-----------------------------------------------------------------------------
\* Conflict Analyzer: declared state, with time passing

MaxDeclared == 3

DeclaredRules ==
    {PolicyRules({"education"}, {}, {}, {}, {}, {}, {}),
     PolicyRules({"food"}, {}, {}, {}, {}, {}, {}),
     PolicyRules({}, {}, {}, {}, {}, {}, {1}),
     PolicyRules({}, {}, {}, {}, {}, {}, {2})}

DeclaredPayloads ==
    {PolicyCreate(n, TypeOf(r), r, {}, 0) : n \in StoreNames, r \in DeclaredRules}

\* PolicyService.create_policy on the payloads of this specification
CreateDeclared ==
    \E policy_data \in DeclaredPayloads :
        LET r == create_policy(store, wallets, policy_data, Len(store) + 1)
        IN  /\ Len(store) < MaxDeclared
            /\ store' = r.store
            /\ last' = [kind |-> "create_policy", raised |-> r.raised]
            /\ UNCHANGED <<tx, policies, now, prev, transaction_history,
                           wallets, transactions, clawbacks, calls>>

\* PolicyService.update_policy with is_active
UpdateDeclared ==
    \E policy_id \in 1..MaxDeclared, updates \in PolicyUpdates :
        LET r == update_policy(store, policy_id, updates)
        IN  /\ store' = r.store
            /\ last' = [kind |-> "update_policy", raised |-> r.raised]
            /\ UNCHANGED <<calls, now, valVars, wallets, transactions, clawbacks>>

\* the clock of datetime.utcnow() goes on between two requests
TimePasses ==
    /\ now < MaxTime
    /\ now' = now + 1
    /\ last' = [kind |-> "none"]
    /\ UNCHANGED <<calls, valVars, storeVars>>

NextDeclared == CreateDeclared \/ UpdateDeclared \/ TimePasses \/ DetectAllConflicts

SpecDeclared == InitPolicy /\ [][NextDeclared]_vars

\* the rules that fire for policy against existing
FiredRules(policy, existing) ==
    LET fired == category_conflict(policy, existing)
                 \o amount_conflict(policy, existing)
                 \o cap_conflict(policy, existing)
                 \o geo_conflict(policy, existing)
                 \o merchant_conflict(policy, existing)
                 \o expiry_conflict(policy, existing)
    IN  {fired[k].rule : k \in 1..Len(fired)}

\* C29: conflict detection goes by declared state: no entry of a report
\* names or comes from a policy with is_active false, and for every pair of
\* active policies, expired or not, every pairwise rule that fires for the
\* earlier against the later one has its entry.
C29_DeclaredStateOnly ==
    DetectedHere =>
        /\ \A k \in 1..Len(last.report.conflicts) :
              /\ store[last.report.conflicts[k].policy_a].is_active
              /\ store[last.report.conflicts[k].policy_b].is_active
              /\ store[last.report.conflicts[k].existing].is_active
        /\ \A i, j \in 1..Len(store) :
              i < j /\ store[i].is_active /\ store[j].is_active
              => \A rule \in FiredRules(store[i], store[j]) :
                    \E k \in 1..Len(last.report.conflicts) :
                        /\ last.report.conflicts[k].policy_a = i
                        /\ last.report.conflicts[k].policy_b = j
                        /\ last.report.conflicts[k].existing = j
                        /\ last.report.conflicts[k].rule = rule

\* a report with an entry against a policy whose expiry is in the past, made
\* while an inactive policy is stored that conflicts with an active one
C29_Witness ==
    /\ DetectedHere
    /\ \E k \in 1..Len(last.report.conflicts) :
          is_expired(store[last.report.conflicts[k].existing], now)
    /\ \E i, j \in 1..Len(store) :
          /\ i # j
          /\ ~store[i].is_active
          /\ store[j].is_active
          /\ FiredRules(store[i], store[j]) \cup FiredRules(store[j], store[i]) # {}

-----------------------------------------------------------------------------
\* Clawback Engine: the request as the caller sends it

\* the amounts a caller puts into the body as the fallback
FallbackAmounts == {3, MockAmount}

\* the JSON bodies of POST /clawback/execute: the fields of ClawbackRequest,
\* with or without an amount beside them
ClawbackBodies ==
    {[transaction_id |-> id, wallet_id |-> w, reason |-> r, force |-> f,
      amount |-> a] :
        id \in TransactionIds, w \in 1..MaxWallets, r \in ClawbackReasons,
        f \in BOOLEAN, a \in {{}} \cup {{x} : x \in FallbackAmounts}}

\* the ClawbackRequest made of a body: the model takes its four fields and
\* passes over every other key
parse_clawback_request(body) ==
    ClawbackRequest(body.transaction_id, body.wallet_id, body.reason, body.force)

\* POST /clawback/execute.  The call record keeps, beside what the call
\* returned, the body and the balance the wallet had before the call.
ClawbackRoute ==
    \E body \in ClawbackBodies :
        LET clawback_request == parse_clawback_request(body)
            r == execute_clawback(transactions, clawbacks, wallets,
                                  clawback_request)
        IN  /\ Len(clawbacks) < MaxClawbacks
            /\ wallets' = r.wallets
            /\ clawbacks' = r.clawbacks
            /\ last' = [kind |-> "clawback_route", raised |-> r.raised,
                        body |-> body, result |-> r.result,
                        balance_before |->
                            IF clawback_request.wallet_id \in DOMAIN wallets
                            THEN {wallets[clawback_request.wallet_id].balance}
                            ELSE {}]
            /\ UNCHANGED <<calls, now, valVars, store, transactions>>

NextFallback == CreateWallet \/ RegisterTransaction \/ ClawbackRoute

SpecFallback == InitClawback /\ [][NextFallback]_vars

\* a forced clawback of a transaction the service does not know has just been
\* asked for on an existing wallet, with a fallback amount in the body
ForcedWithFallbackHere ==
    /\ last.kind = "clawback_route"
    /\ last.body.wallet_id \in DOMAIN wallets
    /\ last.body.transaction_id \notin DOMAIN transactions
    /\ last.body.force
    /\ last.body.amount # {}

\* C30: a forced clawback of a transaction that is not in the history
\* reverses the fallback amount the caller supplied: amount_reversed reports
\* it and the wallet is credited by exactly that amount.
C30_ForcedClawbackReversesTheFallback ==
    ForcedWithFallbackHere =>
        /\ last.raised = NoneStr
        /\ \A result \in last.result :
              /\ {result.amount_reversed} = last.body.amount
              /\ wallets[last.body.wallet_id].balance
                    = Some(last.balance_before) + Some(last.body.amount)

=============================================================================
